---- MODULE Spec2Model ----
(***************************************************************************)
(* Fund analysis system: the document ingestion pipeline                   *)
(* (backend/app/services/document_processor.py) and the metrics engine     *)
(* (backend/app/services/metrics_calculator.py).                           *)
(*                                                                         *)
(* Spec   : process_document calls of two pipeline instances, one storage  *)
(*          operation per step, every collaborator call able to raise.     *)
(* MSpec  : the metrics operations over bounded storage contents.          *)
(* ASpec  : calculate_all_metrics and get_calculation_breakdown.           *)
(* PSpec  : the parsers, each applied to inputs drawn from bounded sets.   *)
(* FSpec  : all the operations of the calculator, one invocation.          *)
(* CSpec  : the metrics operations beside commits of ingestion.            *)
(* BSpec  : the section search of the three transaction parsers.           *)
(***************************************************************************)
EXTENDS Integers, Sequences, FiniteSets, TLC

VARIABLES
    funds,                \* committed rows of table funds
    documents,            \* committed documents.fund_id, by document id
    document_embeddings,  \* committed rows of table document_embeddings
    capital_calls,        \* committed rows of table capital_calls
    distributions,        \* committed rows of table distributions
    adjustments,          \* committed rows of table adjustments
    funds_id_seq,         \* the sequence behind funds.id (not transactional)
    call,                 \* per pipeline instance: the running process_document call
    started,              \* number of process_document calls started so far
    m                     \* the operation invoked on its own (MSpec, ASpec, PSpec, ...)
                          \* and what it returned

vars == <<funds, documents, document_embeddings, capital_calls, distributions,
          adjustments, funds_id_seq, call, started, m>>

storage == <<funds, documents, document_embeddings, capital_calls, distributions,
             adjustments>>

(***************************************************************************)
(* Bounds of the model.                                                    *)
(***************************************************************************)
MaxCalls == 2        \* process_document calls per behaviour
FracDigits == 2      \* amounts are integers counting 10^-FracDigits
MaxRows == 3         \* rows in capital_calls, distributions and adjustments together (MSpec)
MaxAggRows == 2      \* the same, for the operations of ASpec
MaxLen == 3          \* characters of an amount string (PSpec); at most FracDigits + 1
MaxRecs == 2         \* candidate records of a section (PSpec)
MaxCommits == 2      \* commits of process_document calls (CSpec)
MaxFrameRows == 1    \* rows in the three transaction tables together (FSpec)

None == <<>>         \* Python None / SQL NULL; a value v that is present is <<v>>
Some(v) == <<v>>

Unit == 10 ^ FracDigits

(***************************************************************************)
(* FieldExtractor: parse_date, parse_amount.                               *)
(***************************************************************************)
IsLeap(y) == (y % 4 = 0 /\ y % 100 # 0) \/ y % 400 = 0

DaysIn(y, mo) ==
    IF mo \in {4, 6, 9, 11} THEN 30
    ELSE IF mo = 2 THEN (IF IsLeap(y) THEN 29 ELSE 28)
    ELSE 31

MonthNames ==
    <<"January", "February", "March", "April", "May", "June", "July", "August",
      "September", "October", "November", "December">>

MonthAbbrs ==
    <<"Jan", "Feb", "Mar", "Apr", "May", "Jun", "Jul", "Aug", "Sep", "Oct", "Nov", "Dec">>

\* The number of the month called w in names, 0 when there is none.
MonthOf(names, w) ==
    IF \E k \in 1..12 : names[k] = w THEN CHOOSE k \in 1..12 : names[k] = w ELSE 0

\* A date string, stripped, is held by its layout:
\*   form  "n-n-n", "n/n/n", "n.n.n": three digit groups and their separator,
\*         "w n, n": a word, a digit group, a comma, a digit group;
\*   mon   the word ("" when the layout has none);
\*   n, w  the value and the number of digits of each digit group (the word's
\*         place holds 0);
\*   rest  whether more characters follow the last digit group.
\* The directives of strptime: %Y takes exactly four digits, %m one or two
\* digits making 1..12, %d one or two digits making 1..31.
Year(s, i) == s.w[i] = 4

Month(s, i) == s.w[i] \in {1, 2} /\ s.n[i] \in 1..12

Day(s, i) == s.w[i] \in {1, 2} /\ s.n[i] \in 1..31

\* datetime(y, mo, d): ValueError (here None) for a date that does not exist.
\* A datetime is held as yyyymmdd.
datetime(y, mo, d) ==
    IF y \in 1..9999 /\ mo \in 1..12 /\ d \in 1..DaysIn(y, mo)
    THEN Some(y * 10000 + mo * 100 + d)
    ELSE None

\* datetime.strptime(s, fmt): the whole string has to match the format
\* (ValueError, here None, when it does not or when data remains).
strptime(s, fmt) ==
    IF s.rest THEN None
    ELSE IF fmt = "%Y-%m-%d" THEN
        IF s.form = "n-n-n" /\ Year(s, 1) /\ Month(s, 2) /\ Day(s, 3)
        THEN datetime(s.n[1], s.n[2], s.n[3]) ELSE None
    ELSE IF fmt = "%m/%d/%Y" THEN
        IF s.form = "n/n/n" /\ Month(s, 1) /\ Day(s, 2) /\ Year(s, 3)
        THEN datetime(s.n[3], s.n[1], s.n[2]) ELSE None
    ELSE IF fmt = "%d-%m-%Y" THEN
        IF s.form = "n-n-n" /\ Day(s, 1) /\ Month(s, 2) /\ Year(s, 3)
        THEN datetime(s.n[3], s.n[2], s.n[1]) ELSE None
    ELSE IF fmt = "%B %d, %Y" THEN
        IF s.form = "w n, n" /\ MonthOf(MonthNames, s.mon) # 0 /\ Day(s, 2) /\ Year(s, 3)
        THEN datetime(s.n[3], MonthOf(MonthNames, s.mon), s.n[2]) ELSE None
    ELSE IF fmt = "%b %d, %Y" THEN
        IF s.form = "w n, n" /\ MonthOf(MonthAbbrs, s.mon) # 0 /\ Day(s, 2) /\ Year(s, 3)
        THEN datetime(s.n[3], MonthOf(MonthAbbrs, s.mon), s.n[2]) ELSE None
    ELSE IF fmt = "%Y/%m/%d" THEN
        IF s.form = "n/n/n" /\ Year(s, 1) /\ Month(s, 2) /\ Day(s, 3)
        THEN datetime(s.n[1], s.n[2], s.n[3]) ELSE None
    ELSE None

date_formats == <<"%Y-%m-%d", "%m/%d/%Y", "%d-%m-%Y", "%B %d, %Y", "%b %d, %Y", "%Y/%m/%d">>

\* parse_date trying the first format only.
parse_date_mut(s) == strptime(s, date_formats[1])

\* for fmt in date_formats: return the first strptime that does not raise
\* ValueError; None when every format raised.
RECURSIVE TryFormats(_, _)
TryFormats(s, i) ==
    IF i > Len(date_formats) THEN None
    ELSE LET r == strptime(s, date_formats[i])
         IN  IF r # None THEN r ELSE TryFormats(s, i + 1)

parse_date(s) == TryFormats(s, 1)

Digits == {"0", "1", "2", "3", "4", "5", "6", "7", "8", "9"}

DigitVal(c) ==
    CASE c = "0" -> 0 [] c = "1" -> 1 [] c = "2" -> 2 [] c = "3" -> 3
      [] c = "4" -> 4 [] c = "5" -> 5 [] c = "6" -> 6 [] c = "7" -> 7
      [] c = "8" -> 8 [] c = "9" -> 9

RECURSIVE DigitsVal(_)
DigitsVal(s) ==
    IF s = <<>> THEN 0
    ELSE 10 * DigitsVal(SubSeq(s, 1, Len(s) - 1)) + DigitVal(s[Len(s)])

\* The substitution also taking the minus signs out.
Cleaned_mut(s) == SelectSeq(s, LAMBDA c : c \in Digits \cup {"."})

\* re.sub(r"[^\d.-]", "", amount_str)
Cleaned(s) == SelectSeq(s, LAMBDA c : c \in Digits \cup {".", "-"})

\* What float() accepts of a string over digits, '.' and '-': an optional
\* leading '-', digits with at most one '.', at least one digit.
FloatBody(s) == IF s # <<>> /\ s[1] = "-" THEN SubSeq(s, 2, Len(s)) ELSE s

FloatOk(s) ==
    LET b == FloatBody(s)
        dots == {i \in 1..Len(b) : b[i] = "."}
    IN  /\ \A i \in 1..Len(b) : b[i] # "-"
        /\ Cardinality(dots) <= 1
        /\ \E i \in 1..Len(b) : b[i] \in Digits

\* float(cleaned), in units of 10^-FracDigits (fraction digits beyond
\* FracDigits do not occur in the inputs of the model).
FloatVal(s) ==
    LET b == FloatBody(s)
        dots == {i \in 1..Len(b) : b[i] = "."}
        dot == IF dots = {} THEN Len(b) + 1 ELSE CHOOSE i \in dots : TRUE
        ip == SubSeq(b, 1, dot - 1)
        fp == SubSeq(b, dot + 1, Len(b))
        mag == DigitsVal(ip) * Unit + DigitsVal(fp) * (10 ^ (FracDigits - Len(fp)))
    IN  IF s[1] = "-" THEN 0 - mag ELSE mag

parse_amount(s) ==
    LET cleaned == Cleaned(s)
    IN  IF cleaned = <<>> THEN None
        ELSE IF FloatOk(cleaned) THEN Some(FloatVal(cleaned))
        ELSE None      \* float() raised ValueError: caught, None

(***************************************************************************)
(* Document text.  A text is held by what the parsers read of it:          *)
(*   nwords   its number of whitespace-separated words;                    *)
(*   name, gp what "Fund Name:\s*(.+)" and "GP:\s*(.+)" capture, stripped  *)
(*            (None when the pattern finds nothing);                       *)
(*   vintage  the characters that follow "Vintage Year:" and its white     *)
(*            space (None when the label is absent);                       *)
(*   headers  the sections whose header pattern matches;                   *)
(*   calls, dists, adjs  per kind the candidate records its record pattern *)
(*            matches, in document order, each with its date token and its *)
(*            amount token.                                                *)
(***************************************************************************)
\* The date token of a record pattern, (\d{4}-\d{2}-\d{2}).
Tok(y, mo, d) ==
    [form |-> "n-n-n", mon |-> "", n |-> <<y, mo, d>>, w |-> <<4, 2, 2>>, rest |-> FALSE]

\* parse_fund_info taking any run of digits after "Vintage Year:".
parse_fund_info_mut(text) ==
    [name |-> IF text.name = None THEN "Unknown Fund" ELSE text.name[1],
     gp_name |-> IF text.gp = None THEN "Unknown GP" ELSE text.gp[1],
     vintage_year |->
        IF text.vintage # None /\ text.vintage[1] # <<>>
              /\ \A i \in 1..Len(text.vintage[1]) : text.vintage[1][i] \in Digits
        THEN Some(DigitsVal(text.vintage[1]))
        ELSE None]

\* Three searches, each in its own try; "Vintage Year:\s*(\d{4})" needs four
\* digits after the label and takes the first four.
parse_fund_info(text) ==
    [name |-> IF text.name = None THEN "Unknown Fund" ELSE text.name[1],
     gp_name |-> IF text.gp = None THEN "Unknown GP" ELSE text.gp[1],
     vintage_year |->
        IF text.vintage # None /\ Len(text.vintage[1]) >= 4
              /\ \A i \in 1..4 : text.vintage[1][i] \in Digits
        THEN Some(DigitsVal(SubSeq(text.vintage[1], 1, 4)))
        ELSE None]

\* The test of parse_capital_calls without the test of the amount's truth.
CallAccepted_mut(c) == parse_date(c.date) # None /\ parse_amount(c.amount) # None

\* `if call_date and amount`: a datetime is truthy, None and 0.0 are falsy.
CallAccepted(c) ==
    /\ parse_date(c.date) # None
    /\ parse_amount(c.amount) # None
    /\ parse_amount(c.amount)[1] # 0

\* The test of parse_adjustments written as in the other two parsers.
AdjAccepted_mut(c) ==
    /\ parse_date(c.date) # None
    /\ parse_amount(c.amount) # None
    /\ parse_amount(c.amount)[1] # 0

\* `if adj_date and amount is not None`
AdjAccepted(c) == parse_date(c.date) # None /\ parse_amount(c.amount) # None

\* parse_capital_calls reading the records wherever they stand.
parse_capital_calls_mut(text) ==
    LET acc == SelectSeq(text.calls, CallAccepted)
    IN  [k \in 1..Len(acc) |->
            [call_date |-> parse_date(acc[k].date),
             call_type |-> acc[k].type,
             amount |-> parse_amount(acc[k].amount)]]

\* A parser returns [] when its header pattern finds no section; else one
\* record per accepted candidate, in the order of the matches.  A record
\* holds what parse_date and parse_amount returned.
parse_capital_calls(text) ==
    IF "Capital Calls" \notin text.headers THEN <<>>
    ELSE LET acc == SelectSeq(text.calls, CallAccepted)
         IN  [k \in 1..Len(acc) |->
                 [call_date |-> parse_date(acc[k].date),
                  call_type |-> acc[k].type,
                  amount |-> parse_amount(acc[k].amount)]]

parse_distributions(text) ==
    IF "Distributions" \notin text.headers THEN <<>>
    ELSE LET acc == SelectSeq(text.dists, CallAccepted)
         IN  [k \in 1..Len(acc) |->
                 [distribution_date |-> parse_date(acc[k].date),
                  distribution_type |-> acc[k].type,
                  amount |-> parse_amount(acc[k].amount),
                  is_recallable |-> acc[k].recallable = "yes"]]

parse_adjustments(text) ==
    IF "Adjustments" \notin text.headers THEN <<>>
    ELSE LET acc == SelectSeq(text.adjs, AdjAccepted)
         IN  [k \in 1..Len(acc) |->
                 [adjustment_date |-> parse_date(acc[k].date),
                  adjustment_type |-> acc[k].type,
                  amount |-> parse_amount(acc[k].amount)]]

ChunkSize == 500

\* A chunking that keeps whole chunks only.
chunk_text_mut(text, chunk_size) ==
    LET n == text.nwords \div chunk_size
    IN  [k \in 1..n |-> <<(k - 1) * chunk_size + 1, k * chunk_size>>]

\* chunk_text(text, chunk_size): words[i:i + chunk_size] for i in
\* range(0, len(words), chunk_size); a chunk is held as the positions
\* <<first, last>> of its words.
chunk_text(text, chunk_size) ==
    LET n == (text.nwords + chunk_size - 1) \div chunk_size
    IN  [k \in 1..n |->
            <<(k - 1) * chunk_size + 1,
              IF k * chunk_size < text.nwords THEN k * chunk_size ELSE text.nwords>>]

(***************************************************************************)
(* The documents of the model.                                             *)
(***************************************************************************)
Amt100 == <<"$", "1", ",", "0", "0">>
Amt50 == <<"5", "0">>
AmtZero == <<"0">>
AmtCommas == <<",">>
AmtNeg30 == <<"-", "$", "3", "0">>

Sections == {"Capital Calls", "Distributions", "Adjustments"}

\* Two chunks; a capital call and one more with amount 0; a distribution and
\* one more with an impossible date; a negative adjustment and one more with
\* an impossible date.
DocFull ==
    [nwords |-> ChunkSize + 1,
     name |-> Some("Alpha Fund"), gp |-> Some("Test Partners"),
     vintage |-> Some(<<"2", "0", "2", "2">>),
     headers |-> Sections,
     calls |-> <<[date |-> Tok(2024, 1, 1), type |-> "Call 1", amount |-> Amt100],
                 [date |-> Tok(2024, 2, 1), type |-> "Call 2", amount |-> AmtZero]>>,
     dists |-> <<[date |-> Tok(2024, 13, 1), type |-> "Dividend", amount |-> Amt50,
                  recallable |-> "no"],
                 [date |-> Tok(2024, 3, 1), type |-> "Return of Capital", amount |-> Amt50,
                  recallable |-> "yes"]>>,
     adjs |-> <<[date |-> Tok(2024, 4, 1), type |-> "Fee", amount |-> AmtNeg30],
                [date |-> Tok(2023, 2, 29), type |-> "Fee", amount |-> Amt50]>>]

\* No fund labels; the header of the capital calls is missing (a row that
\* would be a capital call stands under none); a distribution whose amount
\* token holds no digit and one more; an adjustment of amount 0.
DocSmall ==
    [nwords |-> 3,
     name |-> None, gp |-> None, vintage |-> None,
     headers |-> {"Distributions", "Adjustments"},
     calls |-> <<[date |-> Tok(2024, 1, 1), type |-> "Call 1", amount |-> Amt100]>>,
     dists |-> <<[date |-> Tok(2023, 7, 1), type |-> "Dividend", amount |-> AmtCommas,
                  recallable |-> "no"],
                 [date |-> Tok(2023, 8, 1), type |-> "Dividend", amount |-> Amt50,
                  recallable |-> "no"]>>,
     adjs |-> <<[date |-> Tok(2024, 2, 29), type |-> "NAV_ADJUSTMENT",
                 amount |-> AmtZero]>>]

\* Whitespace only.
DocBlank ==
    [nwords |-> 0, name |-> None, gp |-> None, vintage |-> None, headers |-> {},
     calls |-> <<>>, dists |-> <<>>, adjs |-> <<>>]

Docs == {DocFull, DocSmall, DocBlank}

Instances == {"A", "B"}     \* independent pipeline instances, one session each
FundIds == {1, 2}           \* fund ids a caller asks for

(***************************************************************************)
(* Storage.  A session's writes are pending (tx) until its commit, which   *)
(* applies them all at once; rollback drops them.  A statement reads the   *)
(* committed rows and the session's own pending rows.                      *)
(***************************************************************************)
EmptyTx ==
    [embeddings |-> <<>>, funds_ins |-> {}, funds_upd |-> {}, documents_upd |-> {},
     capital_calls |-> <<>>, distributions |-> <<>>, adjustments |-> <<>>]

NoResult == [status |-> "none"]

IdleCall ==
    [pc |-> "idle", n |-> 0, text |-> DocBlank, document_id |-> 0, req |-> 0,
     fund_id |-> 0, chunks |-> <<>>, i |-> 1, fund_check |-> FALSE,
     capital_calls |-> <<>>, distributions |-> <<>>, adjustments |-> <<>>,
     tx |-> EmptyTx, writes |-> 0, commits |-> 0, rollbacks |-> 0,
     err |-> "", rollback_raised |-> FALSE, overlapped |-> FALSE,
     result |-> NoResult]

FundRows(p) == funds \cup call[p].tx.funds_ins

\* UPDATE funds ... WHERE id = u.id
ApplyFundUpdate(rows, u) ==
    {IF f.id = u.id
        THEN [f EXCEPT !.name = u.name, !.gp_name = u.gp_name,
                       !.vintage_year = u.vintage_year, !.upd = u.by]
        ELSE f : f \in rows}

RECURSIVE ApplyFundUpdates(_, _)
ApplyFundUpdates(rows, us) ==
    IF us = {} THEN rows
    ELSE LET u == CHOOSE x \in us : TRUE
         IN  ApplyFundUpdates(ApplyFundUpdate(rows, u), us \ {u})

ApplyDocUpdates(docs, us) ==
    [d \in DOMAIN docs |->
        IF \E u \in us : u.id = d
        THEN (CHOOSE u \in us : u.id = d).fund_id
        ELSE docs[d]]

(***************************************************************************)
(* DocumentProcessor.process_document, one collaborator call per step.     *)
(***************************************************************************)
Set(p, c) == call' = [call EXCEPT ![p] = c]

\* An exception raised inside the try block: control goes to the handler.
Raise(p, at) == Set(p, [call[p] EXCEPT !.pc = "except", !.err = at])

\* Leaving a for loop whose items are exhausted, and parsing the next section,
\* touch no collaborator: they are part of the step that ran the last item.
RECURSIVE Advance(_)
Advance(c) ==
    IF c.pc = "embed" /\ c.i > Len(c.chunks)
        THEN [c EXCEPT !.pc = "fund_select"]
    ELSE IF c.pc = "capital_calls" /\ c.i > Len(c.capital_calls)
        THEN Advance([c EXCEPT !.pc = "distributions", !.i = 1,
                               !.distributions = parse_distributions(c.text)])
    ELSE IF c.pc = "distributions" /\ c.i > Len(c.distributions)
        THEN Advance([c EXCEPT !.pc = "adjustments", !.i = 1,
                               !.adjustments = parse_adjustments(c.text)])
    ELSE IF c.pc = "adjustments" /\ c.i > Len(c.adjustments)
        THEN [c EXCEPT !.pc = "commit"]
    ELSE c

Running(c) == c.pc \notin {"idle", "done"}

\* The calls of instances p and q ran at the same time: the one started later
\* (overlapped records it) was started while the other was running.
Concurrent(p, q) ==
    /\ p # q /\ call[p].n > 0 /\ call[q].n > 0
    /\ IF call[p].n > call[q].n THEN call[p].overlapped ELSE call[q].overlapped

\* The caller invokes process_document(file_path, document_id, fund_id) on an
\* instance that is not running a call.  The record of a call that has
\* returned is kept until the next call starts.
Start(p, text, fund_id) ==
    /\ ~Running(call[p])
    /\ started < MaxCalls
    /\ (\A q \in Instances : ~Running(call[q])) => p = "A"   \* interchangeable
    /\ started' = started + 1
    /\ call' = [q \in Instances |->
                  IF q = p
                  THEN [IdleCall EXCEPT !.pc = "extract", !.n = started + 1,
                                        !.text = text, !.document_id = started + 1,
                                        !.req = fund_id, !.fund_id = fund_id,
                                        !.overlapped = \E r \in Instances \ {p} :
                                                          Running(call[r])]
                  ELSE IF Running(call[q]) THEN call[q] ELSE IdleCall]
    /\ UNCHANGED <<storage, funds_id_seq, m>>

\* ExtractText without the emptiness check.
ExtractText_mut(p) ==
    /\ call[p].pc = "extract"
    /\ \/ Raise(p, "open")
       \/ Set(p, Advance([call[p] EXCEPT !.pc = "embed", !.i = 1,
                              !.chunks = chunk_text(call[p].text, ChunkSize)]))
    /\ UNCHANGED <<storage, funds_id_seq, started, m>>

\* pdfplumber.open / extract_text, the emptiness check, chunk_text.
ExtractText(p) ==
    /\ call[p].pc = "extract"
    /\ \/ Raise(p, "open")
       \/ /\ call[p].text.nwords = 0
          /\ Raise(p, "PDF contains no extractable text")
       \/ /\ call[p].text.nwords > 0
          /\ Set(p, Advance([call[p] EXCEPT !.pc = "embed", !.i = 1,
                                 !.chunks = chunk_text(call[p].text, ChunkSize)]))
    /\ UNCHANGED <<storage, funds_id_seq, started, m>>

\* for chunk in chunks: embedding_func(chunk); INSERT INTO document_embeddings
EmbedChunk(p) ==
    LET c == call[p]
    IN  /\ c.pc = "embed"
        /\ c.i <= Len(c.chunks)
        /\ \/ Raise(p, "embedding_func")
           \/ Raise(p, "insert document_embeddings")
           \/ Set(p, Advance([c EXCEPT !.i = c.i + 1, !.writes = c.writes + 1,
                  !.tx.embeddings = Append(c.tx.embeddings,
                      [document_id |-> c.document_id, content |-> c.chunks[c.i],
                       by |-> c.n])]))
        /\ UNCHANGED <<storage, funds_id_seq, started, m>>

\* parse_fund_info, then SELECT id FROM funds WHERE id=:fund_id
FundSelect(p) ==
    LET c == call[p]
    IN  /\ c.pc = "fund_select"
        /\ \/ Raise(p, "select funds")
           \/ Set(p, [c EXCEPT !.fund_check = \E f \in FundRows(p) : f.id = c.fund_id,
                               !.pc = "fund_upsert"])
        /\ UNCHANGED <<storage, funds_id_seq, started, m>>

\* by: the call that inserted the row; upd: the last call that updated it.
FundRow(id, info, n) ==
    [id |-> id, name |-> info.name, gp_name |-> info.gp_name,
     vintage_year |-> info.vintage_year, by |-> n, upd |-> 0]

\* if fund_check: UPDATE funds SET name, gp_name, vintage_year WHERE id=:fund_id.
\* The row is locked until the updating session ends.
FundUpdate(p) ==
    LET c == call[p]
    IN  /\ c.pc = "fund_upsert" /\ c.fund_check
        /\ \A q \in Instances \ {p} : \A u \in call[q].tx.funds_upd : u.id # c.fund_id
        /\ \/ Raise(p, "update funds")
           \/ Set(p, Advance([c EXCEPT !.pc = "capital_calls", !.i = 1,
                  !.writes = c.writes + 1,
                  !.tx.funds_upd = {FundRow(c.fund_id, parse_fund_info(c.text), c.n)},
                  !.capital_calls = parse_capital_calls(c.text)]))
        /\ UNCHANGED <<storage, funds_id_seq, started, m>>

\* FundInsert on a session that commits each statement at once.
FundInsert_autocommit(p) ==
    LET c == call[p]
    IN  /\ c.pc = "fund_upsert" /\ ~c.fund_check
        /\ \/ /\ Raise(p, "insert funds")
              /\ UNCHANGED <<funds_id_seq, funds>>
           \/ /\ funds_id_seq' = funds_id_seq + 1
              /\ funds' = funds \cup {FundRow(funds_id_seq, parse_fund_info(c.text), c.n)}
              /\ Set(p, [c EXCEPT !.pc = "rebind", !.writes = c.writes + 1,
                                  !.fund_id = funds_id_seq])
        /\ UNCHANGED <<documents, document_embeddings, capital_calls, distributions,
                       adjustments, started, m>>

\* FundInsert that leaves the local fund_id at the id asked for.
FundInsert_keep_id(p) ==
    LET c == call[p]
    IN  /\ c.pc = "fund_upsert" /\ ~c.fund_check
        /\ \/ /\ Raise(p, "insert funds")
              /\ UNCHANGED funds_id_seq
           \/ /\ funds_id_seq' = funds_id_seq + 1
              /\ Set(p, [c EXCEPT !.pc = "rebind", !.writes = c.writes + 1,
                     !.tx.funds_ins = {FundRow(funds_id_seq, parse_fund_info(c.text), c.n)}])
        /\ UNCHANGED <<storage, started, m>>

\* else: INSERT INTO funds (name, ...) RETURNING id; fund_id = the new id.
\* The id comes from the table's sequence, which a rollback does not rewind.
FundInsert(p) ==
    LET c == call[p]
    IN  /\ c.pc = "fund_upsert" /\ ~c.fund_check
        /\ \/ /\ Raise(p, "insert funds")
              /\ UNCHANGED funds_id_seq
           \/ /\ funds_id_seq' = funds_id_seq + 1
              /\ Set(p, [c EXCEPT !.pc = "rebind", !.writes = c.writes + 1,
                     !.fund_id = funds_id_seq,
                     !.tx.funds_ins = {FundRow(funds_id_seq, parse_fund_info(c.text), c.n)}])
        /\ UNCHANGED <<storage, started, m>>

\* UPDATE documents SET fund_id=:fund_id WHERE id=:doc_id
Rebind(p) ==
    LET c == call[p]
    IN  /\ c.pc = "rebind"
        /\ \/ Raise(p, "update documents")
           \/ Set(p, Advance([c EXCEPT !.pc = "capital_calls", !.i = 1,
                  !.writes = c.writes + 1,
                  !.tx.documents_upd = {[id |-> c.document_id, fund_id |-> c.fund_id]},
                  !.capital_calls = parse_capital_calls(c.text)]))
        /\ UNCHANGED <<storage, funds_id_seq, started, m>>

\* for call in capital_calls: INSERT INTO capital_calls
InsertCapitalCall(p) ==
    LET c == call[p]
    IN  /\ c.pc = "capital_calls"
        /\ c.i <= Len(c.capital_calls)
        /\ \/ Raise(p, "insert capital_calls")
           \/ Set(p, Advance([c EXCEPT !.i = c.i + 1, !.writes = c.writes + 1,
                  !.tx.capital_calls = Append(c.tx.capital_calls,
                      [fund_id |-> c.fund_id,
                       call_date |-> c.capital_calls[c.i].call_date,
                       call_type |-> c.capital_calls[c.i].call_type,
                       amount |-> c.capital_calls[c.i].amount, by |-> c.n])]))
        /\ UNCHANGED <<storage, funds_id_seq, started, m>>

\* for dist in distributions: INSERT INTO distributions
InsertDistribution(p) ==
    LET c == call[p]
    IN  /\ c.pc = "distributions"
        /\ c.i <= Len(c.distributions)
        /\ \/ Raise(p, "insert distributions")
           \/ Set(p, Advance([c EXCEPT !.i = c.i + 1, !.writes = c.writes + 1,
                  !.tx.distributions = Append(c.tx.distributions,
                      [fund_id |-> c.fund_id,
                       distribution_date |-> c.distributions[c.i].distribution_date,
                       distribution_type |-> c.distributions[c.i].distribution_type,
                       amount |-> c.distributions[c.i].amount,
                       is_recallable |-> c.distributions[c.i].is_recallable,
                       by |-> c.n])]))
        /\ UNCHANGED <<storage, funds_id_seq, started, m>>

\* for adj in adjustments: INSERT INTO adjustments
InsertAdjustment(p) ==
    LET c == call[p]
    IN  /\ c.pc = "adjustments"
        /\ c.i <= Len(c.adjustments)
        /\ \/ Raise(p, "insert adjustments")
           \/ Set(p, Advance([c EXCEPT !.i = c.i + 1, !.writes = c.writes + 1,
                  !.tx.adjustments = Append(c.tx.adjustments,
                      [fund_id |-> c.fund_id,
                       adjustment_date |-> c.adjustments[c.i].adjustment_date,
                       adjustment_type |-> c.adjustments[c.i].adjustment_type,
                       amount |-> c.adjustments[c.i].amount, by |-> c.n])]))
        /\ UNCHANGED <<storage, funds_id_seq, started, m>>

\* Summary counting the candidate records instead of the accepted ones.
Summary_mut(c) ==
    [status |-> "success", document_id |-> c.document_id, fund_id |-> c.fund_id,
     parsed |-> [capital_calls |-> Len(c.text.calls),
                 distributions |-> Len(c.text.dists),
                 adjustments |-> Len(c.text.adjs)]]

Summary(c) ==
    [status |-> "success", document_id |-> c.document_id, fund_id |-> c.fund_id,
     parsed |-> [capital_calls |-> Len(c.capital_calls),
                 distributions |-> Len(c.distributions),
                 adjustments |-> Len(c.adjustments)]]

\* A commit that leaves out the transaction rows already stored for the fund.
Commit_dedup(p) ==
    LET c == call[p]
        New(rows, pending) ==
            SelectSeq(pending, LAMBDA r :
                \A k \in 1..Len(rows) : [rows[k] EXCEPT !.by = 0] # [r EXCEPT !.by = 0])
    IN  /\ c.pc = "commit"
        /\ \/ /\ Raise(p, "commit")
              /\ UNCHANGED storage
           \/ /\ funds' = ApplyFundUpdates(funds, c.tx.funds_upd) \cup c.tx.funds_ins
              /\ documents' = ApplyDocUpdates(documents, c.tx.documents_upd)
              /\ document_embeddings' = document_embeddings \o c.tx.embeddings
              /\ capital_calls' = capital_calls \o New(capital_calls, c.tx.capital_calls)
              /\ distributions' = distributions \o New(distributions, c.tx.distributions)
              /\ adjustments' = adjustments \o New(adjustments, c.tx.adjustments)
              /\ Set(p, [c EXCEPT !.pc = "done", !.commits = c.commits + 1,
                                  !.tx = EmptyTx, !.result = Summary(c)])
        /\ UNCHANGED <<funds_id_seq, started, m>>

\* self.db.commit(), then the summary is built and returned.
Commit(p) ==
    LET c == call[p]
    IN  /\ c.pc = "commit"
        /\ \/ /\ Raise(p, "commit")
              /\ UNCHANGED storage
           \/ /\ funds' = ApplyFundUpdates(funds, c.tx.funds_upd) \cup c.tx.funds_ins
              /\ documents' = ApplyDocUpdates(documents, c.tx.documents_upd)
              /\ document_embeddings' = document_embeddings \o c.tx.embeddings
              /\ capital_calls' = capital_calls \o c.tx.capital_calls
              /\ distributions' = distributions \o c.tx.distributions
              /\ adjustments' = adjustments \o c.tx.adjustments
              /\ Set(p, [c EXCEPT !.pc = "done", !.commits = c.commits + 1,
                                  !.tx = EmptyTx, !.result = Summary(c)])
        /\ UNCHANGED <<funds_id_seq, started, m>>

\* A handler that rolls back and runs the call again from the start.
Handler_retry(p) ==
    LET c == call[p]
    IN  /\ c.pc = "except"
        /\ Set(p, [c EXCEPT !.pc = "extract", !.rollbacks = c.rollbacks + 1,
                            !.tx = EmptyTx, !.err = "", !.i = 1, !.chunks = <<>>])
        /\ UNCHANGED <<storage, funds_id_seq, started, m>>

\* except Exception as e: self.db.rollback(); return {"status": "failed", ...}.
\* The rollback is not guarded: when it raises, the exception leaves
\* process_document.  Either way the session's pending writes are gone.
Handler(p) ==
    LET c == call[p]
    IN  /\ c.pc = "except"
        /\ \/ Set(p, [c EXCEPT !.pc = "done", !.rollbacks = c.rollbacks + 1,
                               !.tx = EmptyTx,
                               !.result = [status |-> "failed",
                                           document_id |-> c.document_id,
                                           error |-> c.err]])
           \/ Set(p, [c EXCEPT !.pc = "done", !.rollbacks = c.rollbacks + 1,
                               !.tx = EmptyTx, !.rollback_raised = TRUE])
        /\ UNCHANGED <<storage, funds_id_seq, started, m>>

NoSolver == [k |-> "unused", v |-> 0]

NoMetric ==
    [op |-> "none", fund_id |-> 0, F |-> {}, solver |-> NoSolver,
     res |-> [k |-> "None", v |-> 0]]

\* A fresh database, or one in which fund 1 was created before.
Init ==
    /\ \E existing \in BOOLEAN :
          /\ funds = IF existing
                        THEN {[id |-> 1, name |-> "Beta Fund", gp_name |-> "Unknown GP",
                               vintage_year |-> None, by |-> 0, upd |-> 0]}
                        ELSE {}
          /\ funds_id_seq = IF existing THEN 2 ELSE 1
    /\ documents = [d \in 1..MaxCalls |-> 0]
    /\ document_embeddings = <<>>
    /\ capital_calls = <<>>
    /\ distributions = <<>>
    /\ adjustments = <<>>
    /\ call = [p \in Instances |-> IdleCall]
    /\ started = 0
    /\ m = NoMetric

Next ==
    \E p \in Instances :
        \/ \E text \in Docs, fund_id \in FundIds : Start(p, text, fund_id)
        \/ ExtractText(p)
        \/ EmbedChunk(p)
        \/ FundSelect(p)
        \/ FundUpdate(p)
        \/ FundInsert(p)
        \/ Rebind(p)
        \/ InsertCapitalCall(p)
        \/ InsertDistribution(p)
        \/ InsertAdjustment(p)
        \/ Commit(p)
        \/ Handler(p)

Spec == Init /\ [][Next]_vars

(***************************************************************************)
(* Claims about process_document (specification Spec).                     *)
(***************************************************************************)
CountBy(rows, n) == Len(SelectSeq(rows, LAMBDA r : r.by = n))

\* The j-th smallest member of a set of positions.
Nth(K, j) == CHOOSE k \in K : Cardinality({i \in K : i <= k}) = j

\* No committed row carries a write of call n of document d.
NothingPersists(n, d) ==
    /\ CountBy(document_embeddings, n) = 0
    /\ CountBy(capital_calls, n) = 0
    /\ CountBy(distributions, n) = 0
    /\ CountBy(adjustments, n) = 0
    /\ \A f \in funds : f.by # n /\ f.upd # n
    /\ documents[d] = 0

EmptyTextError == "PDF contains no extractable text"

\* C1: a process_document call that raised at any step after text extraction
\* (embedding call, any storage statement, commit) has rolled back, and no
\* row written by it (embeddings, fund insert or update, document rebind,
\* capital calls, distributions, adjustments) is in committed storage; in
\* particular when an insert into distributions raised.
C1_Atomicity ==
    \A p \in Instances :
        LET c == call[p]
        IN  /\ (c.n > 0 /\ c.commits = 0) => NothingPersists(c.n, c.document_id)
            /\ (c.pc = "done" /\ c.err # "") =>
                   /\ c.rollbacks = 1 /\ c.commits = 0 /\ c.tx = EmptyTx
                   /\ NothingPersists(c.n, c.document_id)

C1_Witness ==
    \E p \in Instances :
        /\ call[p].pc = "done" /\ call[p].err = "insert distributions"
        /\ call[p].writes >= 4
        /\ call[p].result.status = "failed"

\* C2: every finished process_document call has returned a result whose
\* status is "success" or "failed"; no exception leaves the call, whatever
\* step raised, the handler's rollback included.
C2_AlwaysStructuredResult ==
    \A p \in Instances :
        call[p].pc = "done" => call[p].result.status \in {"success", "failed"}

\* C3: when the extracted text is empty or whitespace-only, the call issues
\* no storage write, never commits, calls rollback exactly once and (the
\* rollback returning) returns status "failed" with the error message.
C3_EmptyText ==
    \A p \in Instances :
        LET c == call[p]
        IN  /\ (c.n > 0 /\ c.text.nwords = 0) =>
                   /\ c.writes = 0 /\ c.commits = 0 /\ c.tx = EmptyTx
                   /\ c.pc \in {"extract", "except", "done"}
                   /\ c.pc = "done" => c.rollbacks = 1
            /\ (c.pc = "done" /\ c.err = EmptyTextError /\ ~c.rollback_raised) =>
                   c.result = [status |-> "failed", document_id |-> c.document_id,
                               error |-> EmptyTextError]

C3_Witness ==
    \E p \in Instances :
        /\ call[p].pc = "done" /\ call[p].err = EmptyTextError
        /\ call[p].result.status = "failed" /\ call[p].rollbacks = 1

Succeeded(c) == c.pc = "done" /\ c.result.status = "success"

\* The positions of the candidates each parser accepts, from the tokens.
AcceptedCapitalCalls(text) ==
    {k \in 1..Len(text.calls) :
        /\ "Capital Calls" \in text.headers
        /\ parse_date(text.calls[k].date) # None
        /\ parse_amount(text.calls[k].amount) \notin {None, Some(0)}}

AcceptedDistributions(text) ==
    {k \in 1..Len(text.dists) :
        /\ "Distributions" \in text.headers
        /\ parse_date(text.dists[k].date) # None
        /\ parse_amount(text.dists[k].amount) \notin {None, Some(0)}}

AcceptedAdjustments(text) ==
    {k \in 1..Len(text.adjs) :
        /\ "Adjustments" \in text.headers
        /\ parse_date(text.adjs[k].date) # None
        /\ parse_amount(text.adjs[k].amount) # None}

\* C4: a successful call has committed exactly once and never rolled back;
\* the commit is its last storage operation, after every insert it issued;
\* the parsed counts it returns equal the rows it inserted into each table
\* and the records the grammar accepts of its text.
C4_Success ==
    \A p \in Instances :
        LET c == call[p]
        IN  /\ c.commits >= 1 => Succeeded(c)
            /\ Succeeded(c) =>
                 /\ c.commits = 1 /\ c.rollbacks = 0 /\ c.tx = EmptyTx
                 /\ c.result.parsed.capital_calls = CountBy(capital_calls, c.n)
                 /\ c.result.parsed.distributions = CountBy(distributions, c.n)
                 /\ c.result.parsed.adjustments = CountBy(adjustments, c.n)
                 /\ c.result.parsed.capital_calls
                        = Cardinality(AcceptedCapitalCalls(c.text))
                 /\ c.result.parsed.distributions
                        = Cardinality(AcceptedDistributions(c.text))
                 /\ c.result.parsed.adjustments
                        = Cardinality(AcceptedAdjustments(c.text))
                 /\ c.writes = CountBy(document_embeddings, c.n)
                                + 1 + (IF c.fund_check THEN 0 ELSE 1)
                                + CountBy(capital_calls, c.n)
                                + CountBy(distributions, c.n)
                                + CountBy(adjustments, c.n)

C4_Witness ==
    \E p \in Instances :
        /\ Succeeded(call[p]) /\ call[p].text = DocFull
        /\ call[p].result.parsed
             = [capital_calls |-> 1, distributions |-> 1, adjustments |-> 1]
        /\ CountBy(capital_calls, call[p].n) = 1

AllCarry(rows, id) == \A k \in 1..Len(rows) : rows[k].fund_id = id

OwnRows(rows, n) == SelectSeq(rows, LAMBDA r : r.by = n)

C5_State ==
    \A p \in Instances :
        LET c == call[p]
        IN  /\ c.pc \in {"rebind", "capital_calls", "distributions", "adjustments",
                         "commit"} =>
                 /\ AllCarry(c.tx.capital_calls, c.fund_id)
                 /\ AllCarry(c.tx.distributions, c.fund_id)
                 /\ AllCarry(c.tx.adjustments, c.fund_id)
                 /\ IF c.fund_check
                    THEN /\ c.fund_id = c.req
                         /\ c.tx.funds_ins = {} /\ c.tx.documents_upd = {}
                         /\ c.tx.funds_upd
                              = {FundRow(c.req, parse_fund_info(c.text), c.n)}
                    ELSE /\ c.tx.funds_upd = {}
                         /\ c.tx.funds_ins
                              = {FundRow(c.fund_id, parse_fund_info(c.text), c.n)}
                         /\ c.pc # "rebind" =>
                              c.tx.documents_upd
                                = {[id |-> c.document_id, fund_id |-> c.fund_id]}
            /\ Succeeded(c) =>
                 /\ c.result.fund_id = c.fund_id
                 /\ AllCarry(OwnRows(capital_calls, c.n), c.fund_id)
                 /\ AllCarry(OwnRows(distributions, c.n), c.fund_id)
                 /\ AllCarry(OwnRows(adjustments, c.n), c.fund_id)
                 /\ IF c.fund_check
                    THEN /\ c.result.fund_id = c.req
                         /\ \A f \in funds : f.by # c.n
                         /\ documents[c.document_id] = 0
                    ELSE /\ Cardinality({f \in funds : f.by = c.n}) = 1
                         /\ \A f \in funds : f.by = c.n => f.id = c.result.fund_id
                         /\ documents[c.document_id] = c.result.fund_id

\* What a step does to table funds: a commit of a call that found the fund
\* changes nothing but name, gp_name, vintage_year of the row with that id;
\* a commit of a call that did not find it adds one row; no other step
\* changes the table.
C5_Step ==
    \/ funds' = funds
    \/ \E p \in Instances :
          /\ call[p].pc = "commit" /\ Succeeded(call'[p])
          /\ IF call[p].fund_check
             THEN /\ {f.id : f \in funds'} = {f.id : f \in funds}
                  /\ Cardinality(funds') = Cardinality(funds)
                  /\ \A f \in funds : \E g \in funds' :
                        /\ g.id = f.id /\ g.by = f.by
                        /\ f.id # call[p].req => g = f
             ELSE /\ funds \subseteq funds'
                  /\ Cardinality(funds') = Cardinality(funds) + 1

\* C5: fund upsert.  A call that finds a Fund row with the given id updates
\* only that row's name, gp_name and vintage_year, inserts no Fund row and
\* returns the given id; a call that finds none inserts exactly one Fund row,
\* rebinds the document to the new id, returns the new id, and every capital
\* call, distribution and adjustment row it inserts carries the new id.
C5_FundUpsert == []C5_State /\ [][C5_Step]_vars

\* One call created a fund whose id differs from the id asked for and
\* attached its rows to it; the other call found its fund and updated it.
C5_Witness ==
    \E p, q \in Instances :
        /\ Succeeded(call[p]) /\ ~call[p].fund_check
        /\ call[p].fund_id # call[p].req
        /\ CountBy(capital_calls, call[p].n) = 1
        /\ Succeeded(call[q]) /\ call[q].fund_check
        /\ \E f \in funds : f.id = call[q].req /\ f.upd = call[q].n

\* C6: two concurrent calls for the same fund id, at least one of which found
\* no Fund row with that id, both succeeding: exactly one of them created the
\* Fund row, the other updated it, and both attached their rows to that fund.
C6_OneFund ==
    \A p, q \in Instances :
        ( /\ Concurrent(p, q)
          /\ Succeeded(call[p]) /\ Succeeded(call[q])
          /\ call[p].req = call[q].req
          /\ ~(call[p].fund_check /\ call[q].fund_check) ) =>
            /\ call[p].fund_check # call[q].fund_check
            /\ call[p].result.fund_id = call[q].result.fund_id

\* The statements and calls of process_document that can raise.
Collaborators ==
    {"open", "embedding_func", "insert document_embeddings", "select funds",
     "update funds", "insert funds", "update documents", "insert capital_calls",
     "insert distributions", "insert adjustments", "commit"}

\* What call c holds of a kind: parsed records, pending rows, committed rows.
KindEmpty(c, kind) ==
    IF kind = "Capital Calls"
    THEN c.capital_calls = <<>> /\ c.tx.capital_calls = <<>>
           /\ CountBy(capital_calls, c.n) = 0
    ELSE IF kind = "Distributions"
    THEN c.distributions = <<>> /\ c.tx.distributions = <<>>
           /\ CountBy(distributions, c.n) = 0
    ELSE c.adjustments = <<>> /\ c.tx.adjustments = <<>>
           /\ CountBy(adjustments, c.n) = 0

C17_StoredRows ==
    LET CallOk(r) == /\ r.call_date # None /\ r.amount # None
                     /\ r.amount[1] # 0 /\ r.amount[1] > 0
        DistOk(r) == /\ r.distribution_date # None /\ r.amount # None
                     /\ r.amount[1] # 0 /\ r.amount[1] > 0
        AdjOk(r) == r.adjustment_date # None /\ r.amount # None
    IN  /\ \A k \in 1..Len(capital_calls) : CallOk(capital_calls[k])
        /\ \A k \in 1..Len(distributions) : DistOk(distributions[k])
        /\ \A k \in 1..Len(adjustments) : AdjOk(adjustments[k])
        /\ \A p \in Instances :
              /\ \A k \in 1..Len(call[p].tx.capital_calls) :
                    CallOk(call[p].tx.capital_calls[k])
              /\ \A k \in 1..Len(call[p].tx.distributions) :
                    DistOk(call[p].tx.distributions[k])
              /\ \A k \in 1..Len(call[p].tx.adjustments) :
                    AdjOk(call[p].tx.adjustments[k])

\* Stored: a capital call, an adjustment of amount 0 and a negative one.
C17_Witness ==
    /\ capital_calls # <<>> /\ distributions # <<>>
    /\ \E k \in 1..Len(adjustments) : adjustments[k].amount = Some(0)
    /\ \E k \in 1..Len(adjustments) : adjustments[k].amount[1] < 0

\* The place of a step in process_document.
Rank(pc) ==
    CASE pc = "idle" -> 0
      [] pc = "extract" -> 1
      [] pc = "embed" -> 2
      [] pc = "fund_select" -> 3
      [] pc = "fund_upsert" -> 4
      [] pc = "rebind" -> 5
      [] pc = "capital_calls" -> 6
      [] pc = "distributions" -> 7
      [] pc = "adjustments" -> 8
      [] pc = "commit" -> 9
      [] pc = "except" -> 10
      [] pc = "done" -> 11

\* C24: within one process_document call the steps run in the order text
\* extraction, embedding inserts (one per chunk), fund lookup and upsert,
\* capital-call inserts, distribution inserts, adjustment inserts, commit.
\* A step of the call moves it forward or runs the next item of the loop it
\* is in; the inserts of a kind start when those of the kinds before are
\* all issued; commit and rollback happen at most once, and after either no
\* write is issued, nothing is pending and the call, failed or not, is not
\* run again.
C24_State ==
    \A p \in Instances :
        LET c == call[p]
            fund_written == c.tx.funds_upd # {} \/ c.tx.funds_ins # {}
        IN  /\ c.commits + c.rollbacks <= 1
            /\ c.commits + c.rollbacks = 1 => c.pc = "done" /\ c.tx = EmptyTx
            /\ c.pc = "done" => c.commits + c.rollbacks = 1
            /\ fund_written => Len(c.tx.embeddings) = Len(c.chunks)
            /\ c.tx.capital_calls # <<>> => fund_written
            /\ c.tx.distributions # <<>> =>
                  fund_written /\ Len(c.tx.capital_calls) = Len(c.capital_calls)
            /\ c.tx.adjustments # <<>> =>
                  /\ fund_written
                  /\ Len(c.tx.capital_calls) = Len(c.capital_calls)
                  /\ Len(c.tx.distributions) = Len(c.distributions)
            /\ c.pc = "commit" =>
                  /\ fund_written
                  /\ Len(c.tx.embeddings) = Len(c.chunks)
                  /\ Len(c.tx.capital_calls) = Len(c.capital_calls)
                  /\ Len(c.tx.distributions) = Len(c.distributions)
                  /\ Len(c.tx.adjustments) = Len(c.adjustments)

C24_Step ==
    \A p \in Instances :
        (call[p].n > 0 /\ call'[p].n = call[p].n /\ call'[p] # call[p]) =>
            /\ call[p].pc # "done"
            /\ \/ Rank(call'[p].pc) > Rank(call[p].pc)
               \/ /\ call'[p].pc = call[p].pc
                  /\ call[p].pc \in {"embed", "capital_calls", "distributions", "adjustments"}
                  /\ call'[p].i = call[p].i + 1
            /\ call'[p].writes \in {call[p].writes, call[p].writes + 1}

C24_Sequential == [][C24_Step]_vars /\ []C24_State

\* A call that ran every step: two embeddings, the fund, and a row of each
\* kind, then the commit.
C24_Witness ==
    \E p \in Instances :
        /\ Succeeded(call[p]) /\ call[p].text = DocFull
        /\ call[p].commits = 1 /\ call[p].rollbacks = 0
        /\ call[p].writes >= 6
        /\ CountBy(document_embeddings, call[p].n) = 2
        /\ CountBy(capital_calls, call[p].n) = 1
        /\ CountBy(distributions, call[p].n) = 1
        /\ CountBy(adjustments, call[p].n) = 1

\* The amounts of the rows of fund f, summed.
RECURSIVE SumOfFund(_, _)
SumOfFund(rows, f) ==
    IF rows = <<>> THEN 0
    ELSE (IF rows[1].fund_id = f THEN rows[1].amount[1] ELSE 0) + SumOfFund(Tail(rows), f)

\* The rows stored for call c's accepted records of one kind: rows follows
\* old by one row per accepted candidate, in their order, each with the fund
\* of the call and the parsed amount.
Appended(old, rows, c, cands, K) ==
    /\ Len(rows) = Len(old) + Cardinality(K)
    /\ SubSeq(rows, 1, Len(old)) = old
    /\ \A j \in 1..Cardinality(K) :
          /\ rows[Len(old) + j].fund_id = c.fund_id
          /\ rows[Len(old) + j].by = c.n
          /\ rows[Len(old) + j].amount = parse_amount(cands[Nth(K, j)].amount)

\* C28: process_document is not idempotent on transactions.  The commit of
\* a successful call appends exactly its accepted records to capital_calls,
\* distributions and adjustments, whatever rows are stored already, so the
\* same text processed again for the same existing fund adds its rows once
\* more (and the sums of the fund grow by as much again), while the fund
\* keeps one row.
C28_Step ==
    \A p \in Instances :
        (call[p].pc = "commit" /\ call'[p].commits = 1) =>
            LET c == call[p]
            IN  /\ Appended(capital_calls, capital_calls', c, c.text.calls,
                            AcceptedCapitalCalls(c.text))
                /\ Appended(distributions, distributions', c, c.text.dists,
                            AcceptedDistributions(c.text))
                /\ Appended(adjustments, adjustments', c, c.text.adjs,
                            AcceptedAdjustments(c.text))
                /\ SumOfFund(capital_calls', c.fund_id)
                      = SumOfFund(capital_calls, c.fund_id)
                          + SumOfFund(c.tx.capital_calls, c.fund_id)
                /\ c.fund_check =>
                      /\ c.fund_id = c.req
                      /\ Cardinality({f \in funds' : f.id = c.fund_id}) = 1

C28_NotIdempotent == [][C28_Step]_vars

\* The same text was processed twice for fund 1, which existed: two copies
\* of its capital call, distribution and adjustment, one fund row.
C28_Witness ==
    \E p \in Instances :
        /\ Succeeded(call[p]) /\ call[p].text = DocFull
        /\ call[p].fund_id = 1 /\ call[p].fund_check
        /\ Len(capital_calls) = 2 /\ capital_calls[1].by # capital_calls[2].by
        /\ [capital_calls[1] EXCEPT !.by = 0] = [capital_calls[2] EXCEPT !.by = 0]
        /\ Len(distributions) = 2
        /\ [distributions[1] EXCEPT !.by = 0] = [distributions[2] EXCEPT !.by = 0]
        /\ Len(adjustments) = 2
        /\ [adjustments[1] EXCEPT !.by = 0] = [adjustments[2] EXCEPT !.by = 0]
        /\ SumOfFund(capital_calls, 1) = 2 * capital_calls[1].amount[1]
        /\ Cardinality({f \in funds : f.id = 1}) = 1

MaxWords == 7
MaxChunkSize == 3

\* chunks, each the positions <<first, last>> of its words, cut nwords words
\* into runs of n: none empty, none longer than n, all but the last of
\* exactly n, the first starting at word 1, each starting where the one
\* before ended, the last ending at the last word.
Partition(chunks, nwords, n) ==
    /\ \A k \in 1..Len(chunks) :
          /\ chunks[k][1] <= chunks[k][2]
          /\ chunks[k][2] - chunks[k][1] + 1 <= n
          /\ k < Len(chunks) => chunks[k][2] - chunks[k][1] + 1 = n
          /\ chunks[k][1] = (IF k = 1 THEN 1 ELSE chunks[k - 1][2] + 1)
    /\ (IF chunks = <<>> THEN 0 ELSE chunks[Len(chunks)][2]) = nwords

\* The document_embeddings rows of call c: those it committed, or those of
\* its open transaction.
EmbeddingRows(c) ==
    SelectSeq(document_embeddings, LAMBDA r : r.by = c.n) \o c.tx.embeddings

\* Call c got past text extraction, so chunk_text has run for it.
Chunked(c) ==
    /\ c.n > 0 /\ c.pc \notin {"idle", "extract"}
    /\ c.err \notin {"open", "PDF contains no extractable text"}

\* C30: chunk_text(text, n) partitions the words of the text into chunks
\* of n words, the last one shorter when the words do not divide; the rows
\* process_document inserts into document_embeddings are its chunks in
\* order, one row per chunk, each with the document id given to the call,
\* and a call that succeeded has a row for every chunk.  The first conjunct
\* speaks of no state, so it is evaluated before any call has started.
C30_Chunking ==
    /\ started = 0 =>
          \A nw \in 0..MaxWords, n \in 1..MaxChunkSize :
              Partition(chunk_text([nwords |-> nw], n), nw, n)
    /\ \A p \in Instances :
          LET c == call[p]
              rows == EmbeddingRows(c)
          IN  Chunked(c) =>
                /\ Partition(c.chunks, c.text.nwords, ChunkSize)
                /\ Len(rows) <= Len(c.chunks)
                /\ \A k \in 1..Len(rows) :
                      /\ rows[k].content = c.chunks[k]
                      /\ rows[k].document_id = c.document_id
                /\ c.pc = "embed" => Len(rows) = c.i - 1
                /\ c.pc \in {"fund_select", "fund_upsert", "capital_calls",
                             "distributions", "adjustments", "commit"} =>
                      Len(rows) = Len(c.chunks)
                /\ Succeeded(c) => Len(rows) = Len(c.chunks)

\* A call for the document of ChunkSize + 1 words succeeded: two rows, the
\* first with words 1..ChunkSize, the second with the last word.
C30_Witness ==
    \E p \in Instances :
        LET c == call[p]
            rows == SelectSeq(document_embeddings, LAMBDA r : r.by = c.n)
        IN  /\ Succeeded(c) /\ c.text = DocFull
            /\ Len(rows) = 2
            /\ rows[1].content = <<1, ChunkSize>>
            /\ rows[2].content = <<ChunkSize + 1, ChunkSize + 1>>
            /\ rows[1].document_id = c.document_id
            /\ rows[2].document_id = c.document_id

(***************************************************************************)
(* MetricsCalculator.  A query is the k-th query an operation issues; it   *)
(* raises when k is in the set F of failing queries of that invocation.    *)
(* An operation returns Value(v), NoneResult (Python None), or Raises (an  *)
(* exception leaves it).  Amounts are integers; ratios are held in units   *)
(* of 10^-4, the IRR percentage in units of 10^-2.                         *)
(***************************************************************************)
Value(v) == [k |-> "value", v |-> v]
NoneResult == [k |-> "None", v |-> 0]
Raises == [k |-> "raises", v |-> 0]

Shift(F, d) == {j - d : j \in {x \in F : x > d}}

OfFund(rows, fund_id) == SelectSeq(rows, LAMBDA r : r.fund_id = fund_id)

RECURSIVE SumAmount(_)
SumAmount(rows) ==
    IF rows = <<>> THEN 0 ELSE rows[1].amount + SumAmount(Tail(rows))

\* query(func.sum(...)).filter(...).scalar(): NULL when no row matches.
ScalarSum(rows) == IF rows = <<>> THEN None ELSE Some(SumAmount(rows))

\* x or Decimal(0)
OrZero(x) == IF x = None \/ x = Some(0) THEN 0 ELSE x[1]

\* n / d for d > 0 rounded to an integer: to nearest, ties to even.
RoundDiv(n, d) ==
    LET q == n \div d
        r == n - q * d
    IN  IF 2 * r < d THEN q
        ELSE IF 2 * r > d THEN q + 1
        ELSE IF q % 2 = 0 THEN q ELSE q + 1

\* round(n / d, 4), in units of 10^-4.
Round4(n, d) == RoundDiv(n * 10000, d)

\* calculate_pic without the floor at 0.
calculate_pic_mut(fund_id, F) ==
    IF F \cap {1, 2} # {} THEN Raises
    ELSE Value(OrZero(ScalarSum(OfFund(capital_calls, fund_id)))
                 - OrZero(ScalarSum(OfFund(adjustments, fund_id))))

\* calculate_pic leaving the NAV adjustments out of the adjustments.
calculate_pic_net(fund_id, F) ==
    IF F \cap {1, 2} # {} THEN Raises
    ELSE LET total_calls == OrZero(ScalarSum(OfFund(capital_calls, fund_id)))
             total_adjustments ==
                 OrZero(ScalarSum(SelectSeq(OfFund(adjustments, fund_id),
                                            LAMBDA r : r.adjustment_type # "NAV_ADJUSTMENT")))
             pic == total_calls - total_adjustments
         IN  Value(IF pic > 0 THEN pic ELSE 0)

calculate_pic(fund_id, F) ==
    IF 1 \in F THEN Raises
    ELSE IF 2 \in F THEN Raises
    ELSE LET total_calls == OrZero(ScalarSum(OfFund(capital_calls, fund_id)))
             total_adjustments == OrZero(ScalarSum(OfFund(adjustments, fund_id)))
             pic == total_calls - total_adjustments
         IN  Value(IF pic > 0 THEN pic ELSE 0)

calculate_total_distributions(fund_id, F) ==
    IF 1 \in F THEN Raises
    ELSE Value(OrZero(ScalarSum(OfFund(distributions, fund_id))))

\* calculate_dpi without the guard on PIC = 0.
calculate_dpi_mut(fund_id, F) ==
    LET pic == calculate_pic(fund_id, F)
        total_distributions == calculate_total_distributions(fund_id, Shift(F, 2))
    IN  IF pic = Raises \/ total_distributions = Raises THEN Raises
        ELSE IF pic.v = 0 THEN Raises      \* ZeroDivisionError
        ELSE Value(Round4(total_distributions.v, pic.v))

calculate_dpi(fund_id, F) ==
    LET pic == calculate_pic(fund_id, F)
        total_distributions == calculate_total_distributions(fund_id, Shift(F, 2))
    IN  IF pic = Raises THEN Raises
        ELSE IF total_distributions = Raises THEN Raises
        ELSE IF pic.v = 0 THEN Value(0)
        ELSE Value(Round4(total_distributions.v, pic.v))

\* calculate_nav without the filter on adjustment_type.
calculate_nav_mut(fund_id, F) ==
    IF 1 \in F THEN NoneResult
    ELSE Value(OrZero(ScalarSum(OfFund(adjustments, fund_id))))

calculate_nav(fund_id, F) ==
    IF 1 \in F THEN NoneResult        \* except Exception: return None
    ELSE Value(OrZero(ScalarSum(
             SelectSeq(OfFund(adjustments, fund_id),
                       LAMBDA r : r.adjustment_type = "NAV_ADJUSTMENT"))))

calculate_rvpi(fund_id, F) ==
    LET nav == calculate_nav(fund_id, F)
        pic == calculate_pic(fund_id, Shift(F, 1))
    IN  IF pic = Raises THEN NoneResult         \* caught
        ELSE IF pic.v = 0 THEN Value(0)
        ELSE IF nav = NoneResult THEN NoneResult  \* float(None): TypeError, caught
        ELSE Value(Round4(nav.v, pic.v))

\* calculate_tvpi adding the two ratios, each already rounded.
calculate_tvpi_mut(fund_id, F) ==
    LET total_distributions == calculate_total_distributions(fund_id, F)
        nav == calculate_nav(fund_id, Shift(F, 1))
        pic == calculate_pic(fund_id, Shift(F, 2))
    IN  IF total_distributions = Raises THEN NoneResult
        ELSE IF pic = Raises THEN NoneResult
        ELSE IF pic.v = 0 THEN Value(0)
        ELSE IF nav = NoneResult THEN NoneResult
        ELSE Value(Round4(total_distributions.v, pic.v) + Round4(nav.v, pic.v))

calculate_tvpi(fund_id, F) ==
    LET total_distributions == calculate_total_distributions(fund_id, F)
        nav == calculate_nav(fund_id, Shift(F, 1))
        pic == calculate_pic(fund_id, Shift(F, 2))
    IN  IF total_distributions = Raises THEN NoneResult   \* caught
        ELSE IF pic = Raises THEN NoneResult              \* caught
        ELSE IF pic.v = 0 THEN Value(0)
        ELSE IF nav = NoneResult THEN NoneResult  \* float(None): TypeError, caught
        ELSE Value(Round4(total_distributions.v + nav.v, pic.v))

\* ORDER BY date over the rows of a table; sort(key=date) of a list.  Both
\* are taken stable: rows of equal date keep their order.
RECURSIVE InsertByDate(_, _)
InsertByDate(sorted, e) ==
    IF sorted = <<>> THEN <<e>>
    ELSE IF sorted[Len(sorted)].date <= e.date THEN Append(sorted, e)
    ELSE Append(InsertByDate(SubSeq(sorted, 1, Len(sorted) - 1), e),
                sorted[Len(sorted)])

RECURSIVE SortByDate(_)
SortByDate(es) ==
    IF es = <<>> THEN <<>>
    ELSE InsertByDate(SortByDate(SubSeq(es, 1, Len(es) - 1)), es[Len(es)])

CallFlows(fund_id) ==
    LET rows == OfFund(capital_calls, fund_id)
    IN  SortByDate([k \in 1..Len(rows) |->
            [date |-> rows[k].call_date, amount |-> 0 - rows[k].amount,
             type |-> "capital_call"]])

DistributionFlows(fund_id) ==
    LET rows == OfFund(distributions, fund_id)
    IN  SortByDate([k \in 1..Len(rows) |->
            [date |-> rows[k].distribution_date, amount |-> rows[k].amount,
             type |-> "distribution"]])

\* _get_cash_flows without the final sort of the merged list.
get_cash_flows_mut(fund_id, F) ==
    IF F \cap {1, 2} # {} THEN Raises
    ELSE Value(CallFlows(fund_id) \o DistributionFlows(fund_id))

\* _get_cash_flows appending the distributions before the capital calls.
get_cash_flows_swapped(fund_id, F) ==
    IF F \cap {1, 2} # {} THEN Raises
    ELSE Value(SortByDate(DistributionFlows(fund_id) \o CallFlows(fund_id)))

\* _get_cash_flows: [k |-> "value", v |-> the series] or Raises.
get_cash_flows(fund_id, F) ==
    IF 1 \in F THEN Raises
    ELSE IF 2 \in F THEN Raises
    ELSE Value(SortByDate(CallFlows(fund_id) \o DistributionFlows(fund_id)))

\* What npf.irr(amounts) can hand back: a finite rate (in units of 10^-6),
\* NaN, an infinity, None, or an exception.
SolverOutcomes ==
    {[k |-> "rate", v |-> 130662], [k |-> "rate", v |-> 0 - 250050],
     [k |-> "nan", v |-> 0], [k |-> "inf", v |-> 0], [k |-> "None", v |-> 0],
     [k |-> "raises", v |-> 0]}

\* calculate_irr without the np.isinf test.
calculate_irr_mut(fund_id, F, solver) ==
    LET cash_flows == get_cash_flows(fund_id, F)
    IN  IF cash_flows.k = "raises" THEN NoneResult
        ELSE IF Len(cash_flows.v) < 2 THEN NoneResult
        ELSE IF solver.k = "raises" THEN NoneResult
        ELSE IF solver.k \in {"None", "nan"} THEN NoneResult
        ELSE Value(RoundDiv(solver.v, 100))

calculate_irr(fund_id, F, solver) ==
    LET cash_flows == get_cash_flows(fund_id, F)
    IN  IF cash_flows.k = "raises" THEN NoneResult      \* except Exception
        ELSE IF Len(cash_flows.v) < 2 THEN NoneResult
        ELSE IF solver.k = "raises" THEN NoneResult     \* except Exception
        ELSE IF solver.k \in {"None", "nan", "inf"} THEN NoneResult
        ELSE Value(RoundDiv(solver.v, 100))             \* round(irr * 100, 2)

\* `float(x) if x else 0` of what an operation returned: None and 0 are
\* falsy.  A reported value v is held as Some(v).
Reported(r) == IF r.k = "None" \/ r.v = 0 THEN Some(0) ELSE Some(r.v)

\* calculate_all_metrics reporting what each operation returned as it is.
calculate_all_metrics_mut(fund_id, F, solver) ==
    LET pic == calculate_pic(fund_id, F)
        total_distributions == calculate_total_distributions(fund_id, Shift(F, 2))
        dpi == calculate_dpi(fund_id, Shift(F, 3))
        irr == calculate_irr(fund_id, Shift(F, 6), solver)
        nav == calculate_nav(fund_id, Shift(F, 8))
        rvpi == calculate_rvpi(fund_id, Shift(F, 9))
        tvpi == calculate_tvpi(fund_id, Shift(F, 12))
        Plain(r) == IF r.k = "None" THEN None ELSE Some(r.v)
    IN  IF pic = Raises \/ total_distributions = Raises \/ dpi = Raises THEN Raises
        ELSE Value([pic |-> Plain(pic),
                    total_distributions |-> Plain(total_distributions),
                    dpi |-> Plain(dpi), irr |-> Plain(irr), nav |-> Plain(nav),
                    rvpi |-> Plain(rvpi), tvpi |-> Plain(tvpi)])

\* calculate_all_metrics: the seven operations in turn, none of the calls
\* inside a try; the queries are numbered through the seven of them.
calculate_all_metrics(fund_id, F, solver) ==
    LET pic == calculate_pic(fund_id, F)
        total_distributions == calculate_total_distributions(fund_id, Shift(F, 2))
        dpi == calculate_dpi(fund_id, Shift(F, 3))
        irr == calculate_irr(fund_id, Shift(F, 6), solver)
        nav == calculate_nav(fund_id, Shift(F, 8))
        rvpi == calculate_rvpi(fund_id, Shift(F, 9))
        tvpi == calculate_tvpi(fund_id, Shift(F, 12))
    IN  IF pic = Raises THEN Raises
        ELSE IF total_distributions = Raises THEN Raises
        ELSE IF dpi = Raises THEN Raises
        ELSE Value([pic |-> Reported(pic),
                    total_distributions |-> Reported(total_distributions),
                    dpi |-> Reported(dpi), irr |-> Reported(irr), nav |-> Reported(nav),
                    rvpi |-> Reported(rvpi), tvpi |-> Reported(tvpi)])

\* An operation's return value as an optional: None, or Some(v).
Returned(r) == IF r.k = "None" THEN None ELSE Some(r.v)

\* The queries issued: up to and including the first one that raises
\* uncaught, all n of them when none does.
ReadsUpTo(F, n) ==
    IF F \cap (1..n) = {} THEN n
    ELSE CHOOSE j \in F \cap (1..n) : \A x \in F \cap (1..n) : j <= x

\* get_calculation_breakdown whose last line is missing: an unknown metric
\* name falls off the end of the function and None is returned.
get_calculation_breakdown_mut(fund_id, metric, F, solver) ==
    IF metric = "dpi" THEN
        [res |-> IF F \cap (1..9) # {} THEN Raises
                 ELSE Value([metric |-> "DPI",
                             result |-> Returned(calculate_dpi(fund_id, Shift(F, 3)))]),
         reads |-> ReadsUpTo(F, 9)]
    ELSE IF metric = "irr" THEN
        [res |-> IF F \cap (1..2) # {} THEN Raises
                 ELSE Value([metric |-> "IRR",
                             result |-> Returned(calculate_irr(fund_id, Shift(F, 2), solver))]),
         reads |-> IF F \cap (1..2) # {} THEN ReadsUpTo(F, 2)
                   ELSE IF 3 \in F THEN 3 ELSE 4]
    ELSE IF metric = "pic" THEN
        [res |-> IF F \cap (1..4) # {} THEN Raises
                 ELSE Value([metric |-> "PIC",
                             result |-> Reported(calculate_pic(fund_id, Shift(F, 2)))]),
         reads |-> ReadsUpTo(F, 4)]
    ELSE [res |-> NoneResult, reads |-> 0]

\* get_calculation_breakdown(fund_id, metric): what it returns (of the
\* breakdown object, the fields metric and result) and the queries issued.
\*   "dpi": calculate_pic, calculate_total_distributions, calculate_dpi
\*          (queries 1-6), then the three row lists (7-9); nothing is caught.
\*   "irr": _get_cash_flows (1-2, not caught), then calculate_irr (3-4, caught
\*          inside it; a failing query 3 ends it before query 4).
\*   "pic": the two row lists (1-2), then calculate_pic (3-4); nothing caught.
\*   any other name: the error object, before any query.
get_calculation_breakdown(fund_id, metric, F, solver) ==
    IF metric = "dpi" THEN
        [res |-> IF F \cap (1..9) # {} THEN Raises
                 ELSE Value([metric |-> "DPI",
                             result |-> Returned(calculate_dpi(fund_id, Shift(F, 3)))]),
         reads |-> ReadsUpTo(F, 9)]
    ELSE IF metric = "irr" THEN
        [res |-> IF F \cap (1..2) # {} THEN Raises
                 ELSE Value([metric |-> "IRR",
                             result |-> Returned(calculate_irr(fund_id, Shift(F, 2), solver))]),
         reads |-> IF F \cap (1..2) # {} THEN ReadsUpTo(F, 2)
                   ELSE IF 3 \in F THEN 3 ELSE 4]
    ELSE IF metric = "pic" THEN
        [res |-> IF F \cap (1..4) # {} THEN Raises
                 ELSE Value([metric |-> "PIC",
                             result |-> Reported(calculate_pic(fund_id, Shift(F, 2)))]),
         reads |-> ReadsUpTo(F, 4)]
    ELSE [res |-> Value([error |-> "Unknown metric"]), reads |-> 0]

(***************************************************************************)
(* Specification MSpec: the metrics operations, each invoked on storage    *)
(* contents drawn from the rows below.                                     *)
(***************************************************************************)
\* An operation that also inserts a row for the fund it is asked about.
Metric_writes(op, fund_id, F, solver, res) ==
    /\ m = NoMetric
    /\ m' = [op |-> op, fund_id |-> fund_id, F |-> F, solver |-> solver, res |-> res]
    /\ distributions' =
          Append(distributions,
                 [fund_id |-> fund_id, distribution_date |-> 20240201,
                  distribution_type |-> "Dividend", amount |-> 1,
                  is_recallable |-> FALSE, by |-> 0])
    /\ UNCHANGED <<funds, documents, document_embeddings, capital_calls, adjustments,
                   funds_id_seq, call, started>>

\* The calculator keeps no state and the operations write nothing, so one
\* invocation per behaviour covers them all.
Metric(op, fund_id, F, solver, res) ==
    /\ m = NoMetric
    /\ m' = [op |-> op, fund_id |-> fund_id, F |-> F, solver |-> solver, res |-> res]
    /\ UNCHANGED <<storage, funds_id_seq, call, started>>

CalcPic ==
    \E fund_id \in FundIds, F \in SUBSET (1..2) :
        Metric("calculate_pic", fund_id, F, NoSolver, calculate_pic(fund_id, F))

CalcTotalDistributions ==
    \E fund_id \in FundIds, F \in SUBSET (1..1) :
        Metric("calculate_total_distributions", fund_id, F, NoSolver,
               calculate_total_distributions(fund_id, F))

CalcDpi ==
    \E fund_id \in FundIds, F \in SUBSET (1..3) :
        Metric("calculate_dpi", fund_id, F, NoSolver, calculate_dpi(fund_id, F))

CalcIrr ==
    \E fund_id \in FundIds, F \in SUBSET (1..2), solver \in SolverOutcomes :
        Metric("calculate_irr", fund_id, F, solver, calculate_irr(fund_id, F, solver))

CalcNav ==
    \E fund_id \in FundIds, F \in SUBSET (1..1) :
        Metric("calculate_nav", fund_id, F, NoSolver, calculate_nav(fund_id, F))

CalcRvpi ==
    \E fund_id \in FundIds, F \in SUBSET (1..3) :
        Metric("calculate_rvpi", fund_id, F, NoSolver, calculate_rvpi(fund_id, F))

CalcTvpi ==
    \E fund_id \in FundIds, F \in SUBSET (1..4) :
        Metric("calculate_tvpi", fund_id, F, NoSolver, calculate_tvpi(fund_id, F))

\* No failing query, or one: the k-th of the n queries of an invocation.
OneFault(n) == {{}} \cup {{k} : k \in 1..n}

CalcAllMetrics ==
    \E fund_id \in FundIds, F \in OneFault(16), solver \in SolverOutcomes :
        Metric("calculate_all_metrics", fund_id, F, solver,
               calculate_all_metrics(fund_id, F, solver))

GetCashFlows ==
    \E fund_id \in FundIds, F \in SUBSET (1..2) :
        Metric("_get_cash_flows", fund_id, F, NoSolver, get_cash_flows(fund_id, F))

MetricNames == {"dpi", "irr", "pic", "tvpi", "DPI"}

GetCalculationBreakdown ==
    \E fund_id \in FundIds, metric \in MetricNames, F \in OneFault(9),
       solver \in SolverOutcomes \cup {NoSolver} :
        LET b == get_calculation_breakdown(fund_id, metric, F, solver)
        IN  /\ m = NoMetric
            /\ metric = "irr" <=> solver # NoSolver    \* only "irr" calls the solver
            /\ m' = [op |-> "get_calculation_breakdown", fund_id |-> fund_id, F |-> F,
                     solver |-> solver, res |-> b.res, metric |-> metric,
                     reads |-> b.reads]
            /\ UNCHANGED <<storage, funds_id_seq, call, started>>

CallRow(f, d, a) ==
    [fund_id |-> f, call_date |-> d, call_type |-> "Call 1", amount |-> a, by |-> 0]

DistRow(f, d, a) ==
    [fund_id |-> f, distribution_date |-> d, distribution_type |-> "Dividend",
     amount |-> a, is_recallable |-> FALSE, by |-> 0]

AdjRow(f, t, a) ==
    [fund_id |-> f, adjustment_date |-> 20240401, adjustment_type |-> t,
     amount |-> a, by |-> 0]

CallRows ==
    {CallRow(1, 20240101, 3), CallRow(1, 20240301, 4), CallRow(2, 20240101, 7),
     CallRow(1, 20240101, 4)}

DistRows == {DistRow(1, 20240101, 2), DistRow(1, 20240201, 5), DistRow(2, 20240201, 1)}

AdjRows ==
    {AdjRow(1, "NAV_ADJUSTMENT", 5), AdjRow(1, "Fee", 0 - 1), AdjRow(1, "Fee", 3),
     AdjRow(2, "NAV_ADJUSTMENT", 0 - 3)}

BSeq(S, n) == UNION {[1..k -> S] : k \in 0..n}

\* Storage holding at most n rows in the three transaction tables together.
Tables(n) ==
    /\ funds = {[id |-> f, name |-> "Unknown Fund", gp_name |-> "Unknown GP",
                 vintage_year |-> None, by |-> 0, upd |-> 0] : f \in FundIds}
    /\ funds_id_seq = 3
    /\ documents = [d \in 1..MaxCalls |-> 0]
    /\ document_embeddings = <<>>
    /\ capital_calls \in BSeq(CallRows, n)
    /\ distributions \in BSeq(DistRows, n - Len(capital_calls))
    /\ adjustments \in BSeq(AdjRows, n - Len(capital_calls) - Len(distributions))

MInit ==
    /\ Tables(MaxRows)
    /\ call = [p \in Instances |-> IdleCall]
    /\ started = 0
    /\ m = NoMetric

MNext ==
    \/ CalcPic
    \/ CalcTotalDistributions
    \/ CalcDpi
    \/ CalcIrr
    \/ CalcNav
    \/ CalcRvpi
    \/ CalcTvpi
    \/ GetCashFlows

MSpec == MInit /\ [][MNext]_vars

(***************************************************************************)
(* Specification ASpec: the operations that call the others,               *)
(* calculate_all_metrics and get_calculation_breakdown.                    *)
(***************************************************************************)
AInit ==
    /\ Tables(MaxAggRows)
    /\ call = [p \in Instances |-> IdleCall]
    /\ started = 0
    /\ m = NoMetric

ANext ==
    \/ CalcAllMetrics
    \/ GetCalculationBreakdown

ASpec == AInit /\ [][ANext]_vars

(***************************************************************************)
(* Specification FSpec: every operation of the calculator.                 *)
(***************************************************************************)
FInit ==
    /\ Tables(MaxFrameRows)
    /\ call = [p \in Instances |-> IdleCall]
    /\ started = 0
    /\ m = NoMetric

FNext ==
    \/ MNext
    \/ ANext

FSpec == FInit /\ [][FNext]_vars

(***************************************************************************)
(* Specification CSpec: the metrics operations beside ingestion.  The rows *)
(* of a process_document call become visible together, at its commit;     *)
(* calculate_all_metrics runs its seven operations one after the other,    *)
(* each reading storage as it is when it runs (the session holds no        *)
(* snapshot across statements), so a commit may fall between two of them.  *)
(* An operation is taken as one step, which leaves out the commits that    *)
(* fall between two queries of one operation.                              *)
(***************************************************************************)
\* The rows one document adds for fund 1.
Batch(calls, dists, adjs) == [calls |-> calls, dists |-> dists, adjs |-> adjs]

Batches ==
    {Batch(<<CallRow(1, 20240101, 4)>>, <<>>, <<AdjRow(1, "Fee", 0 - 2)>>),
     Batch(<<>>, <<>>, <<AdjRow(1, "NAV_ADJUSTMENT", 5)>>),
     Batch(<<CallRow(1, 20240101, 7)>>, <<DistRow(1, 20240201, 1)>>, <<>>),
     Batch(<<>>, <<>>, <<AdjRow(1, "NAV_ADJUSTMENT", 1)>>),
     Batch(<<CallRow(1, 20240101, 4)>>, <<DistRow(1, 20240201, 2)>>, <<>>)}

\* calculate_all_metrics has been called and has not returned.
Computing == m.op = "calculate_all_metrics" /\ m.pc < 7

\* db.commit() of a process_document call: the rows it inserted join the
\* committed tables.
IngestionCommits ==
    \E b \in Batches :
        /\ started < MaxCommits
        /\ m = NoMetric \/ Computing
        /\ started' = started + 1
        /\ capital_calls' = capital_calls \o b.calls
        /\ distributions' = distributions \o b.dists
        /\ adjustments' = adjustments \o b.adjs
        /\ UNCHANGED <<funds, documents, document_embeddings, funds_id_seq, call, m>>

\* calculate_all_metrics(fund_id) is entered.
AllMetricsCall ==
    \E fund_id \in FundIds :
        /\ m = NoMetric
        /\ m' = [op |-> "calculate_all_metrics", fund_id |-> fund_id, F |-> {},
                 solver |-> NoSolver, res |-> NoneResult, pc |-> 0, got |-> <<>>]
        /\ UNCHANGED <<storage, funds_id_seq, call, started>>

\* The next of its seven operations runs; after the seventh the mapping is
\* built from what the seven returned.
AllMetricsStep ==
    \E solver \in SolverOutcomes \cup {NoSolver} :
        /\ Computing
        /\ m.pc = 3 <=> solver # NoSolver        \* calculate_irr calls the solver
        /\ LET f == m.fund_id
               r == CASE m.pc = 0 -> calculate_pic(f, {})
                      [] m.pc = 1 -> calculate_total_distributions(f, {})
                      [] m.pc = 2 -> calculate_dpi(f, {})
                      [] m.pc = 3 -> calculate_irr(f, {}, solver)
                      [] m.pc = 4 -> calculate_nav(f, {})
                      [] m.pc = 5 -> calculate_rvpi(f, {})
                      [] m.pc = 6 -> calculate_tvpi(f, {})
               got == Append(m.got, r)
           IN  m' = [m EXCEPT
                       !.pc = m.pc + 1,
                       !.got = got,
                       !.solver = IF m.pc = 3 THEN solver ELSE @,
                       !.res = IF m.pc < 6 THEN @
                               ELSE Value([pic |-> Reported(got[1]),
                                           total_distributions |-> Reported(got[2]),
                                           dpi |-> Reported(got[3]),
                                           irr |-> Reported(got[4]),
                                           nav |-> Reported(got[5]),
                                           rvpi |-> Reported(got[6]),
                                           tvpi |-> Reported(got[7])])]
        /\ UNCHANGED <<storage, funds_id_seq, call, started>>

CInit ==
    /\ funds = {[id |-> f, name |-> "Unknown Fund", gp_name |-> "Unknown GP",
                 vintage_year |-> None, by |-> 0, upd |-> 0] : f \in FundIds}
    /\ funds_id_seq = 3
    /\ documents = [d \in 1..MaxCalls |-> 0]
    /\ document_embeddings = <<>>
    /\ capital_calls = <<>>
    /\ distributions = <<>>
    /\ adjustments = <<>>
    /\ call = [p \in Instances |-> IdleCall]
    /\ started = 0
    /\ m = NoMetric

CNext ==
    \/ IngestionCommits
    \/ AllMetricsCall
    \/ AllMetricsStep
    \/ CalcPic
    \/ CalcDpi
    \/ CalcNav
    \/ CalcRvpi
    \/ CalcTvpi

CSpec == CInit /\ [][CNext]_vars

(***************************************************************************)
(* Specification PSpec: the parsers of document_processor.py, each applied *)
(* once to an input drawn from the sets below.                             *)
(***************************************************************************)
Parsed(op, arg, res) ==
    /\ m = NoMetric
    /\ m' = [op |-> op, arg |-> arg, res |-> res]
    /\ UNCHANGED <<storage, funds_id_seq, call, started>>

\* Amount strings: digits, the two characters the substitution keeps, and
\* characters it removes.
AmountChars == {"0", "1", "2", ".", "-", "$", ",", "a"}

ParseAmount ==
    \E s \in BSeq(AmountChars, MaxLen) : Parsed("parse_amount", s, parse_amount(s))

\* Digit groups <<value, number of digits>> and words of the date strings.
DateFields ==
    {<<2024, 4>>, <<2023, 4>>, <<0, 4>>, <<1, 1>>, <<2, 2>>, <<12, 2>>, <<13, 2>>,
     <<29, 2>>, <<31, 2>>, <<0, 2>>, <<7, 3>>}

MonthWords == {"January", "Jan", "February", "Feb", "May", "December", "Dec", "Sept", "Month"}

DateStrings ==
    {[form |-> f, mon |-> "", n |-> <<a[1], b[1], c[1]>>, w |-> <<a[2], b[2], c[2]>>,
      rest |-> r] :
        f \in {"n-n-n", "n/n/n", "n.n.n"}, a \in DateFields, b \in DateFields,
        c \in DateFields, r \in BOOLEAN}
      \cup
    {[form |-> "w n, n", mon |-> word, n |-> <<0, b[1], c[1]>>, w |-> <<0, b[2], c[2]>>,
      rest |-> r] :
        word \in MonthWords, b \in DateFields, c \in DateFields, r \in BOOLEAN}

ParseDate == \E s \in DateStrings : Parsed("parse_date", s, parse_date(s))

\* What follows "Vintage Year:".
VintageTokens ==
    {<<"2", "0", "2", "2">>, <<"2", "2">>, <<"2", "0", "2", "2", "5">>,
     <<"a", "b", "c", "d">>, <<"2", "0", "2", "a">>}

FundTexts ==
    {[DocBlank EXCEPT !.nwords = 6, !.name = a, !.gp = b, !.vintage = v] :
        a \in {None, Some("Alpha Fund")}, b \in {None, Some("Test Partners")},
        v \in {None} \cup {Some(t) : t \in VintageTokens}}

ParseFundInfo ==
    \E text \in FundTexts : Parsed("parse_fund_info", text, parse_fund_info(text))

\* Candidate records: a date, an earlier date, a date that does not exist;
\* amount tokens as the record patterns let them be ([\d,]+ for a capital
\* call and a distribution, -?\$?[\d,]+ for an adjustment).
CandDates == {Tok(2024, 1, 1), Tok(2023, 6, 1), Tok(2024, 13, 1)}

CallCands ==
    {[date |-> d, type |-> "Call 1", amount |-> a] :
        d \in CandDates, a \in {Amt50, AmtZero, AmtCommas}}

DistCands ==
    {[date |-> d, type |-> "Dividend", amount |-> a, recallable |-> "yes"] :
        d \in CandDates, a \in {Amt50, AmtZero, AmtCommas}}

AdjCands ==
    {[date |-> d, type |-> "Fee", amount |-> a] :
        d \in CandDates, a \in {Amt50, AmtZero, AmtCommas, AmtNeg30}}

HeaderSets == {{}, Sections}

ParseCapitalCalls ==
    \E h \in HeaderSets, cs \in BSeq(CallCands, MaxRecs) :
        LET text == [DocBlank EXCEPT !.nwords = 6, !.headers = h, !.calls = cs]
        IN  Parsed("parse_capital_calls", text, parse_capital_calls(text))

ParseDistributions ==
    \E h \in HeaderSets, cs \in BSeq(DistCands, MaxRecs) :
        LET text == [DocBlank EXCEPT !.nwords = 6, !.headers = h, !.dists = cs]
        IN  Parsed("parse_distributions", text, parse_distributions(text))

ParseAdjustments ==
    \E h \in HeaderSets, cs \in BSeq(AdjCands, MaxRecs) :
        LET text == [DocBlank EXCEPT !.nwords = 6, !.headers = h, !.adjs = cs]
        IN  Parsed("parse_adjustments", text, parse_adjustments(text))

PInit ==
    /\ funds = {}
    /\ funds_id_seq = 1
    /\ documents = [d \in 1..MaxCalls |-> 0]
    /\ document_embeddings = <<>>
    /\ capital_calls = <<>>
    /\ distributions = <<>>
    /\ adjustments = <<>>
    /\ call = [p \in Instances |-> IdleCall]
    /\ started = 0
    /\ m = NoMetric

PNext ==
    \/ ParseAmount
    \/ ParseDate
    \/ ParseFundInfo
    \/ ParseCapitalCalls
    \/ ParseDistributions
    \/ ParseAdjustments

PSpec == PInit /\ [][PNext]_vars

(***************************************************************************)
(* Specification BSpec: the section search that opens parse_capital_calls, *)
(* parse_distributions and parse_adjustments, applied to texts written out *)
(* line by line.  A line is a sequence of tokens: a section title with its *)
(* table header, a title alone, or the fields of a record followed by the  *)
(* words of its description.  The text the regular expression sees is the  *)
(* lines joined, in which a title and the same word inside a description   *)
(* are the same token.                                                     *)
(***************************************************************************)
MaxLines == 3

\* The title, table header and stop titles of the three section patterns.
CallsSection ==
    [parser |-> "parse_capital_calls", title |-> "Capital Calls",
     table |-> "Date Call Number Amount Description",
     stops |-> {"Distributions", "Adjustments", "Performance Summary"},
     head |-> "2024-01-15 Call 1 $5,000,000"]

DistsSection ==
    [parser |-> "parse_distributions", title |-> "Distributions",
     table |-> "Date Type Amount Recallable Description",
     stops |-> {"Adjustments", "Performance Summary"},
     head |-> "2024-06-30 Dividend $1,000,000 No"]

AdjsSection ==
    [parser |-> "parse_adjustments", title |-> "Adjustments",
     table |-> "Date Type Amount Description",
     stops |-> {"Performance Summary", "Fund Strategy"},
     head |-> "2024-09-30 Fee -$50,000"]

SectionPatterns == {CallsSection, DistsSection, AdjsSection}

HeaderLine(s) == <<s.title, s.table>>

Descriptions == {<<"Initial", "closing">>, <<"Reserve", "for", "Distributions">>,
                 <<"Adjustments", "reserve">>}

RecordLine(s, d) == <<s.head>> \o d

Lines ==
    {HeaderLine(s) : s \in SectionPatterns}
        \cup {<<"Performance Summary">>}
        \cup {RecordLine(s, d) : s \in SectionPatterns, d \in Descriptions}

\* "\n".join(lines), as the tokens of the text in order.
RECURSIVE Joined(_)
Joined(lines) == IF lines = <<>> THEN <<>> ELSE Head(lines) \o Joined(Tail(lines))

\* re.search(r'<title>\s+<table header>\s+(.*?)(?=<stops>|\Z)', text, DOTALL |
\* IGNORECASE): the leftmost title followed by its table header and by
\* something more; group 1 runs lazily from there to just before the first
\* stop title, wherever it stands, or to the end.  The result holds the
\* positions first..last of group 1 in the text and its tokens.
SectionBlock(text, s) ==
    LET t == Joined(text)
        starts == {i \in 1..(Len(t) - 2) : t[i] = s.title /\ t[i + 1] = s.table}
    IN  IF starts = {} THEN [found |-> FALSE, first |-> 0, last |-> 0, content |-> <<>>]
        ELSE LET i == CHOOSE x \in starts : \A y \in starts : x <= y
                 ends == {j \in (i + 2)..Len(t) : t[j] \in s.stops}
                 last == IF ends = {} THEN Len(t)
                         ELSE (CHOOSE x \in ends : \A y \in ends : x <= y) - 1
             IN  [found |-> TRUE, first |-> i + 2, last |-> last,
                  content |-> SubSeq(t, i + 2, last)]

Texts == BSeq(Lines, MaxLines)

CapitalCallsBlock ==
    /\ m = NoMetric
    /\ \E text \in Texts :
        Parsed("parse_capital_calls", text, SectionBlock(text, CallsSection))

DistributionsBlock ==
    /\ m = NoMetric
    /\ \E text \in Texts :
        Parsed("parse_distributions", text, SectionBlock(text, DistsSection))

AdjustmentsBlock ==
    /\ m = NoMetric
    /\ \E text \in Texts :
        Parsed("parse_adjustments", text, SectionBlock(text, AdjsSection))

BInit == PInit

BNext ==
    \/ CapitalCallsBlock
    \/ DistributionsBlock
    \/ AdjustmentsBlock

BSpec == BInit /\ [][BNext]_vars

(***************************************************************************)
(* Claims about the section blocks (specification BSpec).                  *)
(***************************************************************************)
\* The position in the joined text of the first token of line k.
RECURSIVE LineStart(_, _)
LineStart(text, k) == IF k = 1 THEN 1 ELSE LineStart(text, k - 1) + Len(text[k - 1])

IsRecordLine(line) == \E s \in SectionPatterns : line[1] = s.head

\* Line k opens a section whose title stops the block of section s.
IsStopHeader(text, k, s) ==
    \/ text[k] = <<"Performance Summary">>
    \/ \E o \in SectionPatterns : o.title \in s.stops /\ text[k] = HeaderLine(o)

\* C25: the block of a section holds every record line between the
\* section's header and the next real section header (or the end of the
\* text), also when a description holds a word equal to a stop title.  A
\* record line counts as held when the block reaches its fields, even if
\* the description is cut.
C25_Block ==
    \A s \in SectionPatterns :
        (m.op = s.parser /\ m.res.found) =>
            LET text == m.arg
                hs == {k \in 1..Len(text) : text[k] = HeaderLine(s)}
                h == CHOOSE x \in hs : \A y \in hs : x <= y
                ns == {k \in (h + 1)..Len(text) : IsStopHeader(text, k, s)}
                n == IF ns = {} THEN Len(text) + 1
                     ELSE CHOOSE x \in ns : \A y \in ns : x <= y
            IN  \A k \in (h + 1)..(n - 1) :
                    IsRecordLine(text[k]) =>
                        /\ m.res.first <= LineStart(text, k)
                        /\ LineStart(text, k) <= m.res.last

\* Where no description holds a stop title the block does reach the next
\* section: the capital call alone, the Distributions header left out.
C25_PlainBlock ==
    /\ m.op = "parse_capital_calls"
    /\ m.arg = <<HeaderLine(CallsSection),
                 RecordLine(CallsSection, <<"Initial", "closing">>),
                 HeaderLine(DistsSection)>>
    /\ m.res.content = RecordLine(CallsSection, <<"Initial", "closing">>)

(***************************************************************************)
(* Claims about the metrics operations (specification MSpec).              *)
(***************************************************************************)
RECURSIVE SumOver(_, _)
SumOver(rows, idx) ==
    IF idx = {} THEN 0
    ELSE LET k == CHOOSE x \in idx : TRUE
         IN  rows[k].amount + SumOver(rows, idx \ {k})

TotalCalls(f) ==
    SumOver(capital_calls, {k \in 1..Len(capital_calls) : capital_calls[k].fund_id = f})

TotalAdjustments(f) ==
    SumOver(adjustments, {k \in 1..Len(adjustments) : adjustments[k].fund_id = f})

TotalDistributions(f) ==
    SumOver(distributions, {k \in 1..Len(distributions) : distributions[k].fund_id = f})

Nav(f) ==
    SumOver(adjustments, {k \in 1..Len(adjustments) :
        /\ adjustments[k].fund_id = f
        /\ adjustments[k].adjustment_type = "NAV_ADJUSTMENT"})

Max0(x) == IF x > 0 THEN x ELSE 0

Pic(f) == Max0(TotalCalls(f) - TotalAdjustments(f))

\* C7: for every stored set of capital calls and adjustments of a fund,
\* calculate_pic (its queries succeeding) returns max(0, sum of call amounts - sum of all adjustment
\* amounts), an empty sum counting 0; the result is never negative.
C7_Pic ==
    (m.op = "calculate_pic" /\ m.F = {}) =>
        /\ m.res = Value(Pic(m.fund_id))
        /\ m.res.v >= 0

\* Adjustments exceed the calls of the fund, and PIC is reported 0.
C7_Witness ==
    /\ m.op = "calculate_pic" /\ m.F = {}
    /\ TotalCalls(m.fund_id) > 0
    /\ TotalAdjustments(m.fund_id) > TotalCalls(m.fund_id)
    /\ m.res = Value(0)

\* C8: whenever PIC of a fund is 0, calculate_dpi, calculate_rvpi and
\* calculate_tvpi (their queries succeeding) each return exactly 0.0, whatever the distributions and
\* the NAV: no exception, no None.
C8_ZeroPic ==
    ( /\ m.op \in {"calculate_dpi", "calculate_rvpi", "calculate_tvpi"}
      /\ m.F = {}
      /\ Pic(m.fund_id) = 0 ) => m.res = Value(0)

\* PIC is 0 though the fund has calls, and distributions and NAV are not 0.
C8_Witness ==
    /\ m.op = "calculate_tvpi" /\ m.F = {}
    /\ TotalCalls(m.fund_id) > 0 /\ Pic(m.fund_id) = 0
    /\ TotalDistributions(m.fund_id) > 0 /\ Nav(m.fund_id) > 0
    /\ m.res = Value(0)

NumFlows(f) ==
    Cardinality({k \in 1..Len(capital_calls) : capital_calls[k].fund_id = f})
      + Cardinality({k \in 1..Len(distributions) : distributions[k].fund_id = f})

\* C9: calculate_irr never raises; it returns None when the series has fewer
\* than 2 entries, when the solver's result is None, NaN or infinite, and
\* when building the cash flows or the solver raises.
C9_IrrNull ==
    m.op = "calculate_irr" =>
        /\ m.res.k # "raises"
        /\ NumFlows(m.fund_id) < 2 => m.res = NoneResult
        /\ m.solver.k \in {"None", "nan", "inf"} => m.res = NoneResult
        /\ m.F # {} => m.res = NoneResult
        /\ m.solver.k = "raises" => m.res = NoneResult

\* Three cash flows, the queries succeed, and the solver hands back an infinity.
C9_Witness ==
    /\ m.op = "calculate_irr" /\ m.F = {}
    /\ NumFlows(m.fund_id) = 3
    /\ m.solver.k = "inf"
    /\ m.res = NoneResult

MetricKeys == {"pic", "total_distributions", "dpi", "irr", "nav", "rvpi", "tvpi"}

\* The queries of calculate_all_metrics that belong to each metric.
MetricQueries ==
    [pic |-> 1..2, total_distributions |-> 3..3, dpi |-> 4..6, irr |-> 7..8,
     nav |-> 9..9, rvpi |-> 10..12, tvpi |-> 13..16]

\* C11: in calculate_all_metrics a failing storage query in the computation
\* of any one metric is caught at that metric's boundary: no exception
\* reaches the caller, the metric is reported as 0, and every metric none of
\* whose queries failed is reported with the value it has on storage.
C11_MetricIsolation ==
    m.op = "calculate_all_metrics" =>
        /\ m.res.k = "value"
        /\ \A key \in MetricKeys :
               MetricQueries[key] \cap m.F # {} => m.res.v[key] = Some(0)
        /\ m.F \cap (1..3) = {} =>
               /\ m.res.v.pic = Some(Pic(m.fund_id))
               /\ m.res.v.total_distributions = Some(TotalDistributions(m.fund_id))
        /\ m.F \cap (9..9) = {} => m.res.v.nav = Some(Nav(m.fund_id))

\* What calculate_all_metrics reports of a metric whose operation returned r:
\* 0 for None (and for 0), the value otherwise.
Coerced(r) == IF r = NoneResult THEN Some(0) ELSE Some(r.v)

\* C12: calculate_all_metrics (its queries of pic, total_distributions and
\* dpi succeeding) returns a mapping with exactly the seven keys pic,
\* total_distributions, dpi, irr, nav, rvpi, tvpi; every value is a number; a
\* metric whose operation returned None is reported as 0 and any other is
\* reported with the value its own calculate_* operation returns.
C12_AllMetrics ==
    m.op = "calculate_all_metrics" =>
        /\ m.F = {} => m.res.k = "value"
        /\ m.res.k = "value" =>
              LET f == m.fund_id
                  own == [pic |-> calculate_pic(f, Shift(m.F, 0)),
                          total_distributions |->
                              calculate_total_distributions(f, Shift(m.F, 2)),
                          dpi |-> calculate_dpi(f, Shift(m.F, 3)),
                          irr |-> calculate_irr(f, Shift(m.F, 6), m.solver),
                          nav |-> calculate_nav(f, Shift(m.F, 8)),
                          rvpi |-> calculate_rvpi(f, Shift(m.F, 9)),
                          tvpi |-> calculate_tvpi(f, Shift(m.F, 12))]
              IN  /\ DOMAIN m.res.v = MetricKeys
                  /\ \A key \in MetricKeys :
                        /\ m.res.v[key] # None
                        /\ m.res.v[key] = Coerced(own[key])
                  /\ m.F = {} =>
                        /\ m.res.v.pic = Some(Pic(f))
                        /\ m.res.v.total_distributions = Some(TotalDistributions(f))
                        /\ m.res.v.nav = Some(Nav(f))

\* The IRR is None (the solver found no rate) and reported 0, while PIC and
\* DPI of the fund are reported with their values.
C12_Witness ==
    /\ m.op = "calculate_all_metrics" /\ m.F = {}
    /\ NumFlows(m.fund_id) >= 2 /\ m.solver.k = "nan"
    /\ m.res.k = "value"
    /\ m.res.v.irr = Some(0)
    /\ m.res.v.pic # Some(0) /\ m.res.v.dpi # Some(0)

\* C13: get_calculation_breakdown with any metric name other than "dpi",
\* "irr", "pic" returns {error: "Unknown metric"}, does not raise and issues
\* no storage read; with one of the three names (the queries succeeding) it
\* returns an object whose metric field names the metric and whose result is
\* what the corresponding calculate_* operation returns on the same storage.
C13_Breakdown ==
    m.op = "get_calculation_breakdown" =>
        /\ m.metric \notin {"dpi", "irr", "pic"} =>
              /\ m.res.k = "value"
              /\ DOMAIN m.res.v = {"error"} /\ m.res.v.error = "Unknown metric"
              /\ m.reads = 0
        /\ (m.metric = "dpi" /\ m.F = {}) =>
              /\ m.res.k = "value" /\ m.res.v.metric = "DPI"
              /\ Value(m.res.v.result[1]) = calculate_dpi(m.fund_id, {})
        /\ (m.metric = "irr" /\ m.F = {}) =>
              /\ m.res.k = "value" /\ m.res.v.metric = "IRR"
              /\ LET irr == calculate_irr(m.fund_id, {}, m.solver)
                 IN  IF irr = NoneResult THEN m.res.v.result = None
                     ELSE m.res.v.result = Some(irr.v)
        /\ (m.metric = "pic" /\ m.F = {}) =>
              /\ m.res.k = "value" /\ m.res.v.metric = "PIC"
              /\ m.res.v.result = Some(Pic(m.fund_id))
              /\ Value(m.res.v.result[1]) = calculate_pic(m.fund_id, {})

\* An unknown metric name was given (here one that differs from a known name
\* by its case only) on a fund that has rows, and the error object came back.
C13_Witness ==
    /\ m.op = "get_calculation_breakdown" /\ m.metric = "DPI"
    /\ NumFlows(m.fund_id) >= 2
    /\ m.res = Value([error |-> "Unknown metric"]) /\ m.reads = 0

\* The entries of series s with the given date, amount and type.
Entries(s, d, a, t) ==
    {k \in 1..Len(s) : s[k].date = d /\ s[k].amount = a /\ s[k].type = t}

\* C14: the cash-flow series of a fund (the queries succeeding) holds one
\* entry per stored capital call of the fund, with the negated amount, and
\* one per stored distribution of the fund, with the amount as it is; no
\* other entry (adjustments and other funds excluded); the dates do not
\* decrease along the series.
C14_CashFlows ==
    (m.op = "_get_cash_flows" /\ m.F = {}) =>
        /\ m.res.k = "value"
        /\ LET s == m.res.v
               f == m.fund_id
           IN  /\ Len(s) = NumFlows(f)
               /\ \A k \in 1..Len(s) : s[k].type \in {"capital_call", "distribution"}
               /\ \A r \in CallRows :
                     Cardinality(Entries(s, r.call_date, 0 - r.amount, "capital_call"))
                       = Cardinality({k \in 1..Len(capital_calls) :
                             /\ capital_calls[k].fund_id = f
                             /\ capital_calls[k].call_date = r.call_date
                             /\ capital_calls[k].amount = r.amount})
               /\ \A r \in DistRows :
                     Cardinality(Entries(s, r.distribution_date, r.amount, "distribution"))
                       = Cardinality({k \in 1..Len(distributions) :
                             /\ distributions[k].fund_id = f
                             /\ distributions[k].distribution_date = r.distribution_date
                             /\ distributions[k].amount = r.amount})
               /\ \A k \in 1..(Len(s) - 1) : s[k].date <= s[k + 1].date

\* A capital call dated after a distribution of the same fund, and an
\* adjustment of the fund: the series is the distribution, then the call.
C14_Witness ==
    /\ m.op = "_get_cash_flows" /\ m.F = {}
    /\ \E i \in 1..Len(capital_calls), j \in 1..Len(distributions) :
          /\ capital_calls[i].fund_id = m.fund_id
          /\ distributions[j].fund_id = m.fund_id
          /\ capital_calls[i].call_date > distributions[j].distribution_date
    /\ \E k \in 1..Len(adjustments) : adjustments[k].fund_id = m.fund_id
    /\ Len(m.res.v) = 2
    /\ m.res.v[1].type = "distribution" /\ m.res.v[2].type = "capital_call"

\* C21: calculate_nav returns the sum of the amounts of the adjustments of
\* the fund whose adjustment_type is "NAV_ADJUSTMENT", 0 when there are
\* none; other types and other funds do not contribute; when the query
\* raises it returns None.
C21_Nav ==
    m.op = "calculate_nav" =>
        IF m.F = {} THEN m.res.k = "value" /\ m.res.v = Nav(m.fund_id)
        ELSE m.res = NoneResult

\* The fund has a NAV_ADJUSTMENT and an adjustment of another type, and
\* another fund has a NAV_ADJUSTMENT too.
C21_Witness ==
    /\ m.op = "calculate_nav" /\ m.F = {}
    /\ \E i \in 1..Len(adjustments), j \in 1..Len(adjustments), o \in 1..Len(adjustments) :
          /\ adjustments[i].fund_id = m.fund_id
          /\ adjustments[i].adjustment_type = "NAV_ADJUSTMENT"
          /\ adjustments[j].fund_id = m.fund_id
          /\ adjustments[j].adjustment_type # "NAV_ADJUSTMENT"
          /\ adjustments[j].amount # 0
          /\ adjustments[o].fund_id # m.fund_id
          /\ adjustments[o].adjustment_type = "NAV_ADJUSTMENT"
    /\ m.res.k = "value" /\ m.res.v # 0

\* C26: in the cash-flow series, of a capital call and a distribution with
\* the same date the capital call comes first, and the entries of one kind
\* stand in the order in which their query returned them.
OfType(s, t) == SelectSeq(s, LAMBDA e : e.type = t)

C26_TieBreak ==
    (m.op = "_get_cash_flows" /\ m.F = {}) =>
        LET s == m.res.v
        IN  /\ \A i \in 1..Len(s), j \in 1..Len(s) :
                  (i < j /\ s[i].date = s[j].date) =>
                      ~(s[i].type = "distribution" /\ s[j].type = "capital_call")
            /\ OfType(s, "capital_call") = CallFlows(m.fund_id)
            /\ OfType(s, "distribution") = DistributionFlows(m.fund_id)

\* Two capital calls of different amounts and a distribution, all of one
\* date: the calls as stored, then the distribution.
C26_Witness ==
    /\ m.op = "_get_cash_flows" /\ m.F = {}
    /\ Len(m.res.v) = 3
    /\ \A i \in 1..3 : m.res.v[i].date = m.res.v[1].date
    /\ m.res.v[1].type = "capital_call" /\ m.res.v[2].type = "capital_call"
    /\ m.res.v[1].amount > m.res.v[2].amount
    /\ m.res.v[3].type = "distribution"

(***************************************************************************)
(* Claims about the parsers (specification PSpec).                         *)
(***************************************************************************)
\* C15: a candidate whose date token or amount token does not parse is
\* dropped; a capital call or a distribution whose amount parses to zero is
\* dropped; an adjustment whose amount parses to zero or to a negative number
\* is accepted; the other candidates of the block are emitted all the same,
\* in document order.
C15_AcceptancePolicy ==
    /\ m.op = "parse_capital_calls" =>
          LET K == AcceptedCapitalCalls(m.arg)
          IN  /\ Len(m.res) = Cardinality(K)
              /\ \A j \in 1..Len(m.res) :
                    LET c == m.arg.calls[Nth(K, j)]
                    IN  m.res[j] = [call_date |-> parse_date(c.date), call_type |-> c.type,
                                    amount |-> parse_amount(c.amount)]
    /\ m.op = "parse_distributions" =>
          LET K == AcceptedDistributions(m.arg)
          IN  /\ Len(m.res) = Cardinality(K)
              /\ \A j \in 1..Len(m.res) :
                    LET c == m.arg.dists[Nth(K, j)]
                    IN  m.res[j] = [distribution_date |-> parse_date(c.date),
                                    distribution_type |-> c.type,
                                    amount |-> parse_amount(c.amount),
                                    is_recallable |-> c.recallable = "yes"]
    /\ m.op = "parse_adjustments" =>
          LET K == AcceptedAdjustments(m.arg)
          IN  /\ Len(m.res) = Cardinality(K)
              /\ \A j \in 1..Len(m.res) :
                    LET c == m.arg.adjs[Nth(K, j)]
                    IN  m.res[j] = [adjustment_date |-> parse_date(c.date),
                                    adjustment_type |-> c.type,
                                    amount |-> parse_amount(c.amount)]

\* An adjustments block whose first candidate has a date that does not exist
\* and whose second has the amount 0: the second is the one record emitted.
C15_Witness ==
    /\ m.op = "parse_adjustments"
    /\ "Adjustments" \in m.arg.headers
    /\ Len(m.arg.adjs) = 2
    /\ parse_date(m.arg.adjs[1].date) = None
    /\ m.arg.adjs[2].amount = AmtZero
    /\ Len(m.res) = 1
    /\ m.res[1].amount = Some(0)

\* C18: parse_fund_info returns the three fields; a field whose label is
\* absent keeps its default, a field whose label is present takes the parsed
\* value, whatever the other labels; vintage_year is set only when four
\* digits follow the label, to the number they write.
FourDigits(t) == Len(t) >= 4 /\ \A i \in 1..4 : t[i] \in Digits

C18_FundInfo ==
    m.op = "parse_fund_info" =>
        /\ DOMAIN m.res = {"name", "gp_name", "vintage_year"}
        /\ m.res.name = (IF m.arg.name = None THEN "Unknown Fund" ELSE m.arg.name[1])
        /\ m.res.gp_name = (IF m.arg.gp = None THEN "Unknown GP" ELSE m.arg.gp[1])
        /\ m.res.vintage_year # None => m.arg.vintage # None /\ FourDigits(m.arg.vintage[1])
        /\ m.arg.vintage # None /\ FourDigits(m.arg.vintage[1]) =>
              LET t == m.arg.vintage[1]
              IN  m.res.vintage_year =
                     Some(1000 * DigitVal(t[1]) + 100 * DigitVal(t[2])
                             + 10 * DigitVal(t[3]) + DigitVal(t[4]))

\* No "Fund Name:" label, the other two present.
C18_Witness ==
    /\ m.op = "parse_fund_info"
    /\ m.arg.name = None /\ m.arg.gp # None
    /\ m.res.name = "Unknown Fund"
    /\ m.res.gp_name = "Test Partners"
    /\ m.res.vintage_year = Some(2022)

\* C19: parse_amount keeps the digits, '.' and '-' of its argument and reads
\* what is left as a decimal number, a leading '-' making it negative; it
\* returns None when nothing is left or when what is left is not a number
\* (two '.', no digit, a '-' that is not the first character).
RECURSIVE Kept(_)
Kept(s) ==
    IF s = <<>> THEN <<>>
    ELSE IF Head(s) \in Digits \cup {".", "-"} THEN <<Head(s)>> \o Kept(Tail(s))
    ELSE Kept(Tail(s))

WellFormed(t) ==
    /\ {i \in 1..Len(t) : t[i] = "-"} \subseteq {1}
    /\ Cardinality({i \in 1..Len(t) : t[i] = "."}) <= 1
    /\ \E i \in 1..Len(t) : t[i] \in Digits

\* The digits at the positions idx of t, each weighted by its place: dot is
\* the position of the '.', or one past the end.
RECURSIVE PlaceSum(_, _, _)
PlaceSum(t, idx, dot) ==
    IF idx = {} THEN 0
    ELSE LET i == CHOOSE x \in idx : TRUE
             place == IF i < dot THEN Unit * (10 ^ (dot - 1 - i))
                      ELSE 10 ^ (FracDigits - (i - dot))
         IN  DigitVal(t[i]) * place + PlaceSum(t, idx \ {i}, dot)

Decimal(t) ==
    LET dots == {i \in 1..Len(t) : t[i] = "."}
        dot == IF dots = {} THEN Len(t) + 1 ELSE CHOOSE i \in dots : TRUE
        mag == PlaceSum(t, {i \in 1..Len(t) : t[i] \in Digits}, dot)
    IN  IF t[1] = "-" THEN 0 - mag ELSE mag

C19_ParseAmount ==
    m.op = "parse_amount" =>
        LET t == Kept(m.arg)
        IN  IF WellFormed(t) THEN m.res = Some(Decimal(t)) ELSE m.res = None

\* "-$2": the '$' goes, the minus sign stays.
C19_Witness ==
    /\ m.op = "parse_amount"
    /\ m.arg = <<"-", "$", "2">>
    /\ m.res = Some(0 - 2 * Unit)

\* C20: the formats are tried in the order YYYY-MM-DD, MM/DD/YYYY,
\* DD-MM-YYYY, long month name, short month name, YYYY/MM/DD and the result
\* is that of the first one that parses the whole string; a string written
\* in one of them gives the calendar date it denotes; a string that no
\* format matches, a date-shaped one with an impossible month or day
\* included, gives None.
Short(s, i) == s.w[i] \in {1, 2}

\* <<year, month, day>> as the layout of s writes them, <<>> when s is in
\* none of the supported layouts.
Written(s) ==
    IF s.rest THEN <<>>
    ELSE IF s.form = "n-n-n" /\ s.w[1] = 4 /\ Short(s, 2) /\ Short(s, 3)
        THEN <<s.n[1], s.n[2], s.n[3]>>
    ELSE IF s.form = "n-n-n" /\ Short(s, 1) /\ Short(s, 2) /\ s.w[3] = 4
        THEN <<s.n[3], s.n[2], s.n[1]>>
    ELSE IF s.form = "n/n/n" /\ Short(s, 1) /\ Short(s, 2) /\ s.w[3] = 4
        THEN <<s.n[3], s.n[1], s.n[2]>>
    ELSE IF s.form = "n/n/n" /\ s.w[1] = 4 /\ Short(s, 2) /\ Short(s, 3)
        THEN <<s.n[1], s.n[2], s.n[3]>>
    ELSE IF s.form = "w n, n" /\ Short(s, 2) /\ s.w[3] = 4
              /\ \E k \in 1..12 : s.mon \in {MonthNames[k], MonthAbbrs[k]}
        THEN <<s.n[3], CHOOSE k \in 1..12 : s.mon \in {MonthNames[k], MonthAbbrs[k]}, s.n[2]>>
    ELSE <<>>

CalendarDate(ymd) ==
    /\ ymd # <<>>
    /\ ymd[1] >= 1
    /\ ymd[2] \in 1..12
    /\ ymd[3] >= 1
    /\ ymd[3] <= DaysIn(ymd[1], ymd[2])

C20_ParseDate ==
    m.op = "parse_date" =>
        LET s == m.arg
            parsing == {i \in 1..Len(date_formats) : strptime(s, date_formats[i]) # None}
            ymd == Written(s)
        IN  /\ date_formats = <<"%Y-%m-%d", "%m/%d/%Y", "%d-%m-%Y", "%B %d, %Y",
                                "%b %d, %Y", "%Y/%m/%d">>
            /\ parsing # {} => m.res = strptime(s, date_formats[Nth(parsing, 1)])
            /\ parsing = {} => m.res = None
            /\ IF CalendarDate(ymd)
               THEN m.res = Some(ymd[1] * 10000 + ymd[2] * 100 + ymd[3])
               ELSE m.res = None

\* "Feb 29, 2024": the fifth format is the first to parse it.
C20_Witness ==
    /\ m.op = "parse_date"
    /\ m.arg.form = "w n, n" /\ m.arg.mon = "Feb"
    /\ m.arg.n = <<0, 29, 2024>>
    /\ ~m.arg.rest
    /\ m.res = Some(20240229)

(***************************************************************************)
(* Claims about the metrics operations beside ingestion (CSpec).           *)
(***************************************************************************)
Abs(x) == IF x < 0 THEN 0 - x ELSE x

\* r, in units of 10^-4, is n / d rounded to 4 decimals (d > 0).
Nearest4(r, n, d) == 2 * Abs(10000 * n - r * d) <= d

\* C22: calculate_tvpi returns (total distributions + NAV) / PIC rounded to
\* 4 decimals, 0 when PIC is 0; it is calculate_dpi + calculate_rvpi of the
\* same state up to one unit of the fourth decimal, each of the three being
\* rounded on its own.
C22_Tvpi ==
    (m.op = "calculate_tvpi" /\ m.F = {}) =>
        LET f == m.fund_id
        IN  /\ m.res.k = "value"
            /\ IF Pic(f) = 0 THEN m.res.v = 0
               ELSE Nearest4(m.res.v, TotalDistributions(f) + Nav(f), Pic(f))
            /\ Abs(m.res.v - (calculate_dpi(f, {}).v + calculate_rvpi(f, {}).v)) <= 1

\* C22 as stated: calculate_tvpi equals calculate_dpi + calculate_rvpi.
C22_AsStated ==
    (m.op = "calculate_tvpi" /\ m.F = {}) =>
        LET f == m.fund_id
        IN  /\ m.res.k = "value"
            /\ IF Pic(f) = 0 THEN m.res.v = 0
               ELSE Nearest4(m.res.v, TotalDistributions(f) + Nav(f), Pic(f))
            /\ m.res.v = calculate_dpi(f, {}).v + calculate_rvpi(f, {}).v

\* Distributions 1, NAV 1, PIC 6: 0.3333 against 0.1667 + 0.1667.
C22_Witness ==
    /\ m.op = "calculate_tvpi" /\ m.F = {}
    /\ Pic(m.fund_id) = 6
    /\ TotalDistributions(m.fund_id) = 1 /\ Nav(m.fund_id) = 1
    /\ m.res = Value(3333)
    /\ calculate_dpi(m.fund_id, {}) = Value(1667)
    /\ calculate_rvpi(m.fund_id, {}) = Value(1667)

\* C27: the mapping calculate_all_metrics returns is consistent with one
\* storage state, also when an ingestion for the fund commits while it is
\* computed: dpi = total_distributions / pic, rvpi = nav / pic and
\* tvpi = (total_distributions + nav) / pic of the returned values, rounded
\* to 4 decimals, all three 0 when the returned pic is 0.
C27_Consistent ==
    (m.op = "calculate_all_metrics" /\ m.pc = 7) =>
        LET r == m.res.v
            pic == r.pic[1]
            td == r.total_distributions[1]
            nav == r.nav[1]
        IN  IF pic = 0 THEN r.dpi[1] = 0 /\ r.rvpi[1] = 0 /\ r.tvpi[1] = 0
            ELSE /\ Nearest4(r.dpi[1], td, pic)
                 /\ Nearest4(r.rvpi[1], nav, pic)
                 /\ Nearest4(r.tvpi[1], td + nav, pic)

\* C29: a NAV_ADJUSTMENT counts in both ledgers.  Adding one of positive
\* amount x to a fund raises calculate_nav by x and lowers calculate_pic by
\* x, down to 0; and when the adjustments of a fund, the NAV adjustments
\* among them, sum to at least its capital calls, PIC is 0 and DPI, RVPI and
\* TVPI are 0.0.
AddsNavAdjustment ==
    /\ Len(adjustments') = Len(adjustments) + 1
    /\ SubSeq(adjustments', 1, Len(adjustments)) = adjustments
    /\ capital_calls' = capital_calls
    /\ distributions' = distributions
    /\ adjustments'[Len(adjustments')].adjustment_type = "NAV_ADJUSTMENT"
    /\ adjustments'[Len(adjustments')].amount > 0

C29_Step ==
    \A f \in FundIds :
        (AddsNavAdjustment /\ adjustments'[Len(adjustments')].fund_id = f) =>
            LET x == adjustments'[Len(adjustments')].amount
            IN  /\ calculate_nav(f, {})' = Value(calculate_nav(f, {}).v + x)
                /\ calculate_pic(f, {})' = Value(Max0(calculate_pic(f, {}).v - x))

AllZero(f) ==
    /\ calculate_pic(f, {}) = Value(0)
    /\ calculate_dpi(f, {}) = Value(0)
    /\ calculate_rvpi(f, {}) = Value(0)
    /\ calculate_tvpi(f, {}) = Value(0)

C29_State ==
    \A f \in FundIds :
        (Nav(f) > 0 /\ TotalAdjustments(f) >= TotalCalls(f)) => AllZero(f)

C29_BothLedgers == [][C29_Step]_vars /\ []C29_State

\* C29 as stated: a NAV_ADJUSTMENT at least as large as the total of the
\* capital calls makes PIC, DPI, RVPI and TVPI 0.
C29_AsStated ==
    \A f \in FundIds :
        (\E i \in 1..Len(adjustments) :
            /\ adjustments[i].fund_id = f
            /\ adjustments[i].adjustment_type = "NAV_ADJUSTMENT"
            /\ adjustments[i].amount >= TotalCalls(f)) => AllZero(f)

\* Calls 4 and distributions 2, then a NAV_ADJUSTMENT of 5: NAV is 5, PIC
\* is 0.
C29_Witness ==
    /\ m.op = "calculate_pic" /\ m.F = {} /\ m.res = Value(0)
    /\ TotalCalls(m.fund_id) = 4 /\ TotalDistributions(m.fund_id) = 2
    /\ Len(adjustments) = 1
    /\ adjustments[1].adjustment_type = "NAV_ADJUSTMENT" /\ adjustments[1].amount = 5
    /\ calculate_nav(m.fund_id, {}) = Value(5)

(***************************************************************************)
(* Claims about all the operations of the calculator (FSpec).              *)
(***************************************************************************)
\* What the invocation x returns when it is made in the current state.
Again(x) ==
    CASE x.op = "calculate_pic" -> calculate_pic(x.fund_id, x.F)
      [] x.op = "calculate_total_distributions" ->
            calculate_total_distributions(x.fund_id, x.F)
      [] x.op = "calculate_dpi" -> calculate_dpi(x.fund_id, x.F)
      [] x.op = "calculate_irr" -> calculate_irr(x.fund_id, x.F, x.solver)
      [] x.op = "calculate_nav" -> calculate_nav(x.fund_id, x.F)
      [] x.op = "calculate_rvpi" -> calculate_rvpi(x.fund_id, x.F)
      [] x.op = "calculate_tvpi" -> calculate_tvpi(x.fund_id, x.F)
      [] x.op = "_get_cash_flows" -> get_cash_flows(x.fund_id, x.F)
      [] x.op = "calculate_all_metrics" -> calculate_all_metrics(x.fund_id, x.F, x.solver)
      [] x.op = "get_calculation_breakdown" ->
            get_calculation_breakdown(x.fund_id, x.metric, x.F, x.solver).res

SameAgain == m.res = Again(m)

====
